---- MODULE Spec2Model ----
(***************************************************************************)
(* Verification model of the MiniPTI decimation stage.                     *)
(*                                                                         *)
(*  Spec     the C++ block loop of src/decimation/DecimationMain.cpp with  *)
(*           the reader and lock-in filter of src/Cpp/decimation           *)
(*  SpecC    the C block loop of src/lock_in_amplifier                     *)
(*  SpecRef  the reference generator (generateReferences) as a function of *)
(*           one ref array                                                 *)
(*                                                                         *)
(* Sample values are IEEE-754 doubles.  The model keeps their bytes in the *)
(* stream and in the raw block, and decodes them to integers counted in    *)
(* sixteenths (1.0 = 16).  Reference values are counted in thousandths.    *)
(***************************************************************************)
EXTENDS Integers, Sequences, FiniteSets, TLC

VARIABLES
  stream,            \* the bytes of the input file
  pos,               \* read position of the input handle
  good,              \* C++: the ifstream has neither failbit nor eofbit set
  handle,            \* "none" | "open" | "closed"
  onlineMeasurement, \* config["mode"]["online"] == "true"
  rawData,           \* the raw block: seven byte arrays
  inPhase,           \* reference array (thousandths)
  quadratur,         \* reference array (thousandths)
  dc,                \* DC result / accumulator
  ac,                \* AC result / accumulator
  header,            \* header line of the output file
  rows,              \* rows of the output file
  pc,                \* position of the driver
  exitCode,          \* process exit status, NoExit while running
  iter,              \* number of loop iterations begun
  calls,             \* functions called in the current loop iteration
  readLog,           \* per reader call: position before and after
  mode,              \* C: the global enum mode
  reader,            \* C: the read_binary.c the loop is built with
  closes,            \* C: number of times the input handle was released
  staleIO,           \* C: number of stdio calls on the handle after its fclose
  ref,               \* SpecRef: the ref array handed to the generator
  refResult,         \* SpecRef: what the generator returned
  cnrDc,             \* SpecCnr: the dcSignal argument
  cnrIn,             \* SpecCnr: ac1, ac2, ac3 of rawData before the call
  cnrRaw,            \* SpecCnr: ac1, ac2, ac3 of rawData after the call
  revision,          \* SpecInv: the Inversion.cpp the engine is built from
  layout,            \* SpecInv: where the build placed the arrays x and y
  ptiConfig,         \* SpecInv: the configuration (pti.conf)
  data,              \* SpecInv: the rows of the decimated CSV file
  swappPhases,       \* Inversion::_swappPhases
  minIntensities,    \* Inversion::_minIntensities
  maxIntensities,    \* Inversion::_maxIntensities
  dcSignals,         \* Inversion::_dcSignals
  acSignals,         \* Inversion::_acSignals
  selected,          \* per row: the cells xResult and yResult were read from
  interferometricPhase, \* Inversion::_interferometricPhase (degrees)
  weights,           \* per row: the weight calculatePTISignal divided by
  ptiSignal,         \* Inversion::_ptiSignal
  sweep,             \* SpecScan: the columns DC1, DC2, DC3 of the scan file
  scanSignal,        \* OutputPhase::_signal
  scanMin,           \* OutputPhase::minIntensities
  scanMax,           \* OutputPhase::maxIntensities
  bands,             \* OutputPhase::_bands
  swappedPhases,     \* OutputPhase::swappedPhases
  indexDetector,     \* setBandRange: indexDetector2 and indexDetector3
  pastEnd,           \* setBandRange has read _signal[_signal.size()]
  outputPhase,       \* main: outputPhase_1 and outputPhase_2
  scanConfig,        \* the options main has added to pti.conf
  iterations,        \* get_phases: iterations
  status,            \* get_phases: status
  minimizerX,        \* get_phases: s->x, as the number of steps taken
  system_phases,     \* get_phases: what the caller's array received
  reported,          \* get_phases: what it printed
  configFile,        \* SpecConfig: the lines of pti.conf
  configOptions,     \* Config::_options
  lookups,           \* the section and key of each driver lookup so far
  obtained,          \* the values the driver's lookups gave it
  configError,       \* the exception that ended the driver, and the keys it names
  minimizerParams,   \* SpecGradient: the params of the minimizer
  minimizerPoint,    \* SpecGradient: the vector the minimizer asks at
  fValue,            \* function_gradient_value: *f
  dfValue,           \* function_gradient_value: df
  stagesCalled,      \* SpecCalls: the stages called on the engine so far
  uncomputedRead,    \* calculatePTISignal has read past _interferometricPhase
  ptiData            \* what getPTIData returned

vars == <<stream, pos, good, handle, onlineMeasurement, rawData, inPhase,
          quadratur, dc, ac, header, rows, pc, exitCode, iter, calls,
          readLog, mode, reader, closes, staleIO, ref, refResult,
          cnrDc, cnrIn, cnrRaw, revision, layout, ptiConfig, data,
          swappPhases, minIntensities, maxIntensities, dcSignals, acSignals,
          selected, interferometricPhase, weights, ptiSignal,
          sweep, scanSignal, scanMin, scanMax, bands, swappedPhases,
          indexDetector, pastEnd, outputPhase, scanConfig,
          iterations, status, minimizerX, system_phases, reported,
          configFile, configOptions, lookups, obtained, configError,
          minimizerParams, minimizerPoint, fValue, dfValue,
          stagesCalled, uncomputedRead, ptiData>>

\* the state of the stages that run apart from the decimation loop
cnrVars == <<cnrDc, cnrIn, cnrRaw>>
invVars ==
  <<revision, layout, ptiConfig, data, swappPhases, minIntensities,
    maxIntensities, dcSignals, acSignals, selected, interferometricPhase,
    weights, ptiSignal>>
scanVars ==
  <<sweep, scanSignal, scanMin, scanMax, bands, swappedPhases, indexDetector,
    pastEnd, outputPhase, scanConfig>>
optVars == <<iterations, status, minimizerX, system_phases, reported>>
configVars == <<configFile, configOptions, lookups, obtained, configError>>
gradientVars == <<minimizerParams, minimizerPoint, fValue, dfValue>>
callVars == <<stagesCalled, uncomputedRead, ptiData>>
laterVars == <<optVars, configVars, gradientVars, callVars>>
stageVars == <<cnrVars, invVars, scanVars, laterVars>>

(***************************************************************************)
(* Bounds and program constants                                            *)
(***************************************************************************)
\* decimation::samples / SAMPLES (50000 in the source), scaled down
samples == 4
\* largest number of whole blocks in a generated input file
MaxBlocks == 2
\* cap on loop iterations of a run that never sees the end of the stream
MaxIter == 3
\* DATA_SIZE of lock_in_amplifier.c (1700 in the source), scaled down
DATA_SIZE == 3
\* length of the ref arrays handed to the generator in SpecRef
RefSamples == 9

channels == 3
amplification == 1000
HEADER_SIZE == 30
SizeofInt == 4
SizeofDouble == 8

NoExit == 0 - 1
\* a double the model does not follow (outside the decoded window)
Exotic == 0 - 99999

ChannelNames == <<"dc1", "dc2", "dc3", "ref", "ac1", "ac2", "ac3">>
ChannelBytes == SizeofDouble * samples
PreambleBytes == 2 * SizeofInt
BlockBytes == PreambleBytes + 7 * ChannelBytes

(***************************************************************************)
(* Sequences and arithmetic                                                *)
(***************************************************************************)
RECURSIVE SumSeq(_)
SumSeq(s) == IF s = <<>> THEN 0 ELSE Head(s) + SumSeq(Tail(s))

RECURSIVE Pow2(_)
Pow2(n) == IF n = 0 THEN 1 ELSE 2 * Pow2(n - 1)

Zeros(n) == [i \in 1..n |-> 0]

\* sum of doubles: a value the model does not follow poisons the sum
AddAll(s) ==
  IF \E i \in 1..Len(s) : s[i] = Exotic THEN Exotic ELSE SumSeq(s)

Mul(a, b) == IF a = Exotic \/ b = Exotic THEN Exotic ELSE a * b

(***************************************************************************)
(* IEEE-754 binary64, little endian.  The decoded window is the doubles    *)
(* m * 2^k with a 4-bit fraction, -4 <= k <= 3, and zero; they are         *)
(* returned in sixteenths.                                                 *)
(***************************************************************************)
DecodeF64(b) ==
  LET sign == b[8] \div 128
      e    == (b[8] % 128) * 16 + (b[7] \div 16)
      f    == b[7] % 16
      k    == e - 1023
      low0 == \A i \in 1..6 : b[i] = 0
      mag  == IF k >= 0 THEN (16 + f) * Pow2(k)
              ELSE (16 + f) \div Pow2(0 - k)
      fits == /\ low0
              /\ k >= 0 - 4 /\ k <= 3
              /\ (k < 0 => (16 + f) % Pow2(0 - k) = 0)
  IN  IF low0 /\ e = 0 /\ f = 0 THEN 0
      ELSE IF ~fits THEN Exotic
      ELSE IF sign = 1 THEN 0 - mag ELSE mag

\* the bytes of the doubles the generated input files hold
EncodeF64(v) ==
  LET hi == CASE v = 0       -> <<0, 0>>
              [] v = 1       -> <<176, 63>>    \* 0.0625 = 0x3FB0...
              [] v = 8       -> <<224, 63>>    \* 0.5    = 0x3FE0...
              [] v = 16      -> <<240, 63>>    \* 1.0    = 0x3FF0...
              [] v = 32      -> <<0, 64>>      \* 2.0    = 0x4000...
              [] v = 0 - 16  -> <<240, 191>>   \* -1.0   = 0xBFF0...
              [] v = 0 - 8   -> <<224, 191>>   \* -0.5   = 0xBFE0...
  IN  <<0, 0, 0, 0, 0, 0>> \o hi

\* element s (0-based) of a double array kept as bytes
DoubleAt(bytes, s) == DecodeF64(SubSeq(bytes, 8 * s + 1, 8 * s + 8))

Doubles(bytes) == [i \in 1..(Len(bytes) \div 8) |-> DoubleAt(bytes, i - 1)]

RECURSIVE EncodeAll(_)
EncodeAll(vs) ==
  IF vs = <<>> THEN <<>> ELSE EncodeF64(Head(vs)) \o EncodeAll(Tail(vs))

(***************************************************************************)
(* Generated input files: a 30-byte header, whole blocks, and possibly a   *)
(* truncated last block.  A block is an 8-byte preamble and seven arrays.  *)
(***************************************************************************)
PatternNames == {"mod", "low", "flat", "zero"}

\* sample s (0-based) of channel c in a block of the named pattern
PatternValue(p, c, s) ==
  CASE p = "mod" ->
         (CASE c = "dc1" -> 8
            [] c = "dc2" -> 16
            [] c = "dc3" -> 32
            [] c = "ref" -> (IF s % 2 = 0 THEN 16 ELSE 0)
            [] c = "ac1" -> (IF s % 2 = 0 THEN 16 ELSE 0 - 16)
            [] c = "ac2" -> (IF s % 2 = 0 THEN 8 ELSE 0)
            [] c = "ac3" -> (IF s % 2 = 0 THEN 0 ELSE 0 - 8))
    [] p = "low" ->
         (CASE c = "dc1" -> 16
            [] c = "dc2" -> 8
            [] c = "dc3" -> 1
            [] c = "ref" -> (IF (s \div 2) % 2 = 0 THEN 0 ELSE 16)
            [] c = "ac1" -> (IF s % 2 = 0 THEN 8 ELSE 16)
            [] c = "ac2" -> (IF s % 2 = 0 THEN 0 - 8 ELSE 1)
            [] c = "ac3" -> 32)
    [] p = "flat" ->
         (CASE c = "dc1" -> 32
            [] c = "dc2" -> (IF s = 0 THEN 1 ELSE 32)
            [] c = "dc3" -> 8
            [] c = "ref" -> 8
            [] c = "ac1" -> 0 - 16
            [] c = "ac2" -> 16
            [] c = "ac3" -> 1)
    [] p = "zero" -> 0

PatternChannel(p, c) == [i \in 1..samples |-> PatternValue(p, c, i - 1)]

\* the two 32-bit integers the acquisition tool writes before each block
PreambleImage == <<samples % 256, 0, 0, 0, 7, 0, 0, 0>>

RECURSIVE ChannelsImage(_, _)
ChannelsImage(p, n) ==
  IF n = 0 THEN <<>>
  ELSE ChannelsImage(p, n - 1) \o EncodeAll(PatternChannel(p, ChannelNames[n]))

BlockImage(p) == PreambleImage \o ChannelsImage(p, 7)

HeaderImage == [i \in 1..HEADER_SIZE |-> 72]

RECURSIVE BlocksImage(_)
BlocksImage(ps) ==
  IF ps = <<>> THEN <<>> ELSE BlockImage(Head(ps)) \o BlocksImage(Tail(ps))

\* lengths at which a trailing block is cut off
TailCuts ==
  {0, 1, SizeofInt, PreambleBytes, PreambleBytes + 7,
   PreambleBytes + ChannelBytes, PreambleBytes + 3 * ChannelBytes + 5,
   BlockBytes - 1}

PatternSeqs(n) == [1..n -> PatternNames]

InputFiles ==
  {SubSeq(HeaderImage, 1, n) : n \in {0, HEADER_SIZE - 1}}
  \cup
  UNION {
    {HeaderImage \o BlocksImage(ps) \o SubSeq(BlockImage(tp), 1, cut) :
        ps \in PatternSeqs(nb), tp \in {"mod", "flat"}, cut \in TailCuts}
    : nb \in 0..MaxBlocks}

\* number of whole blocks the file holds after its header
WholeBlocks(f) ==
  IF Len(f) < HEADER_SIZE THEN 0 ELSE (Len(f) - HEADER_SIZE) \div BlockBytes

\* bytes of the file after its last whole block
TailBytes(f) ==
  IF Len(f) < HEADER_SIZE THEN 0 ELSE (Len(f) - HEADER_SIZE) % BlockBytes

(***************************************************************************)
(* The raw block                                                           *)
(***************************************************************************)
ZeroBlock == [c \in {"dc1", "dc2", "dc3", "ref", "ac1", "ac2", "ac3"} |->
                Zeros(ChannelBytes)]

\* std::istream::read(buf, n): copies what is left of the stream, at most n
\* bytes, and sets failbit and eofbit when fewer than n were left; does
\* nothing on a stream that is not good
IstreamRead(s, buf, n) ==
  IF ~s.good THEN [pos |-> s.pos, good |-> FALSE, buf |-> buf]
  ELSE LET avail == Len(stream) - s.pos
           cnt   == IF avail < n THEN avail ELSE n
       IN  [pos  |-> s.pos + cnt,
            good |-> avail >= n,
            buf  |-> [i \in 1..Len(buf) |->
                        IF i <= cnt THEN stream[s.pos + i] ELSE buf[i]]]

\* the reads of the seven channel arrays, in the order of ChannelNames
RECURSIVE ReadChannels(_, _, _)
ReadChannels(s, raw, n) ==
  IF n = 0 THEN [pos |-> s.pos, good |-> s.good, raw |-> raw]
  ELSE LET before == ReadChannels(s, raw, n - 1)
           c      == ChannelNames[n]
           r      == IstreamRead(before, before.raw[c],
                                 SizeofDouble * samples)
       IN  [pos |-> r.pos, good |-> r.good,
            raw |-> [before.raw EXCEPT ![c] = r.buf]]

\* the reader with only one of the two preamble integers skipped
readBinaryOnePreambleInt(s, raw) ==
  ReadChannels(IstreamRead(s, Zeros(SizeofInt), SizeofInt), raw, 7)

readBinary(s, raw) ==
  LET i1 == IstreamRead(s, Zeros(SizeofInt), SizeofInt)
      i2 == IstreamRead(i1, Zeros(SizeofInt), SizeofInt)
  IN  ReadChannels(i2, raw, 7)

(***************************************************************************)
(* Quotients.  A value that was k times increased by a sum and divided by  *)
(* D is kept as the sequence <<n1, ..., nk>> of those sums, oldest first:  *)
(* it stands for n1/D^k + ... + nk/D.  D is samples for a DC value (in     *)
(* sixteenths) and samples * amplification for X and Y (in 1/16000).       *)
(***************************************************************************)
\* (q + sum) / D
AddDiv(q, sum) == Append(q, sum)

\* q as digits to base D, lowest first, after carrying; Exotic if not followed
RECURSIVE Carry(_, _, _)
Carry(q, D, c) ==
  IF q = <<>> THEN <<c>>
  ELSE IF Head(q) = Exotic \/ c = Exotic THEN <<Exotic>>
  ELSE <<(Head(q) + c) % D>> \o Carry(Tail(q), D, (Head(q) + c) \div D)

IsZeroQ(q, D) == \A i \in 1..Len(Carry(q, D, 0)) : Carry(q, D, 0)[i] = 0

\* q = n / D
EqualsRatio(q, D, n) ==
  /\ q # <<>>
  /\ q[Len(q)] = n
  /\ n # Exotic
  /\ IsZeroQ(SubSeq(q, 1, Len(q) - 1), D)

(***************************************************************************)
(* DC means and lock-in filter (C++)                                       *)
(***************************************************************************)
calculate_dc(raw) ==
  [dc1 |-> AddDiv(<<>>, AddAll(Doubles(raw.dc1))),
   dc2 |-> AddDiv(<<>>, AddAll(Doubles(raw.dc2))),
   dc3 |-> AddDiv(<<>>, AddAll(Doubles(raw.dc3)))]

\* sum over the samples of signal[s] * reference[s]
Correlate(bytes, reference) ==
  AddAll([i \in 1..samples |-> Mul(DoubleAt(bytes, i - 1), reference[i])])

AcChannel(raw, channel) ==
  CASE channel = 1 -> raw.ac1
    [] channel = 2 -> raw.ac2
    [] channel = 3 -> raw.ac3

lockInFilter(raw, inP, quad) ==
  [in_phase |-> [ch \in 1..channels |->
                   AddDiv(<<>>, Correlate(AcChannel(raw, ch), inP))],
   qudratur |-> [ch \in 1..channels |->
                   AddDiv(<<>>, Correlate(AcChannel(raw, ch), quad))]]

NoDc == [dc1 |-> <<>>, dc2 |-> <<>>, dc3 |-> <<>>]
NoAc == [in_phase |-> [ch \in 1..channels |-> <<>>],
         qudratur |-> [ch \in 1..channels |-> <<>>]]

DecimationHeader ==
  <<"DC1", "DC2", "DC3", "X1", "Y1", "X2", "Y2", "X3", "Y3">>

\* the nine fields of one output row, in the order they are written
CppRow(d, a) ==
  <<d.dc1, d.dc2, d.dc3,
    a.in_phase[1], a.qudratur[1], a.in_phase[2], a.qudratur[2],
    a.in_phase[3], a.qudratur[3]>>

(***************************************************************************)
(* Reference generator (src/decimation/lockInAmplifier.cpp, and the same   *)
(* algorithm in src/lock_in_amplifier/lock_in_amplifier.c)                 *)
(***************************************************************************)
\* comparisons of a double (in sixteenths) with 1.0 / 10 and 9.0 / 10; a
\* double the model does not follow compares false, like a NaN
Below10th(v) == v # Exotic /\ 10 * v < 16
Above9_10th(v) == v # Exotic /\ 10 * v > 9 * 16

ScanStart ==
  [period |-> 0, signals |-> 0, last_time |-> 0, phase_shift |-> 0,
   first_run |-> TRUE]

\* one pass of the loop body, for index sample (0-based)
EdgeStep(st, r, sample) ==
  IF Below10th(r[sample + 2]) /\ Above9_10th(r[sample + 1])
  THEN [st EXCEPT !.last_time = sample,
                  !.phase_shift = IF st.first_run THEN sample ELSE @,
                  !.first_run = FALSE]
  ELSE IF /\ Below10th(r[sample + 1]) /\ Above9_10th(r[sample + 2])
          /\ sample > st.phase_shift
  THEN [st EXCEPT !.period = @ + 2 * (sample - st.last_time),
                  !.signals = @ + 1]
  ELSE st

\* the state after the passes for sample = 0 .. n - 1
RECURSIVE EdgeScan(_, _)
EdgeScan(r, n) ==
  IF n <= 0 THEN ScanStart ELSE EdgeStep(EdgeScan(r, n - 1), r, n - 1)

\* 1000 * sin(2 pi r / D) for 0 <= r < D, D even, rounded: Bhaskara's
\* rational approximation of the sine (exact at multiples of 30 degrees)
SinFrac(r, D) ==
  LET neg == 2 * r > D
      u   == IF neg THEN r - (D \div 2) ELSE r
      q   == u * (D - 2 * u)
      num == 32000 * q
      den == 5 * D * D - 8 * q
      m   == (2 * num + den) \div (2 * den)
  IN  IF neg THEN 0 - m ELSE m

\* 1000 * sin(2 pi num / den) and 1000 * cos(2 pi num / den), den > 0
SinMilli(num, den) == SinFrac((2 * num) % (2 * den), 2 * den)
CosMilli(num, den) == SinFrac((4 * num + den) % (4 * den), 4 * den)

\* status "exit1" is exit(1) at line 31, before the division at line 33;
\* the period is period / signals
generateReferences(r) ==
  LET st == EdgeScan(r, Len(r) - 1)
  IN  IF st.signals = 0
      THEN [status |-> "exit1", period |-> st.period, signals |-> 0,
            phase_shift |-> st.phase_shift,
            inPhase |-> <<>>, quadratur |-> <<>>]
      ELSE [status |-> "ok", period |-> st.period, signals |-> st.signals,
            phase_shift |-> st.phase_shift,
            inPhase |-> [i \in 1..Len(r) |->
               SinMilli((i - 1 - st.phase_shift) * st.signals, st.period)],
            quadratur |-> [i \in 1..Len(r) |->
               CosMilli((i - 1 - st.phase_shift) * st.signals, st.period)]]

(***************************************************************************)
(* The C++ driver: main of DecimationMain.cpp                              *)
(***************************************************************************)
UnusedC == /\ mode = "NORMAL" /\ reader = "none" /\ closes = 0 /\ staleIO = 0
UnusedRef == /\ ref = <<>> /\ refResult = <<>>
UnusedCnr == /\ cnrDc = <<>> /\ cnrIn = <<>> /\ cnrRaw = <<>>
UnusedInv ==
  /\ revision = "none" /\ layout = "none" /\ ptiConfig = <<>> /\ data = <<>>
  /\ swappPhases = FALSE /\ minIntensities = <<>> /\ maxIntensities = <<>>
  /\ dcSignals = <<>> /\ acSignals = <<>> /\ selected = <<>>
  /\ interferometricPhase = <<>> /\ weights = <<>> /\ ptiSignal = <<>>
UnusedScan ==
  /\ sweep = <<>> /\ scanSignal = <<>> /\ scanMin = <<>> /\ scanMax = <<>>
  /\ bands = <<>> /\ swappedPhases = FALSE /\ indexDetector = <<>>
  /\ pastEnd = FALSE /\ outputPhase = <<>> /\ scanConfig = <<>>
UnusedOpt ==
  /\ iterations = 0 /\ status = "none" /\ minimizerX = 0
  /\ system_phases = <<>> /\ reported = <<>>
UnusedConfig ==
  /\ configFile = <<>> /\ configOptions = <<>> /\ lookups = <<>>
  /\ obtained = <<>> /\ configError = <<>>
UnusedGradient ==
  /\ minimizerParams = <<>> /\ minimizerPoint = <<>>
  /\ fValue = <<>> /\ dfValue = <<>>
UnusedCalls ==
  stagesCalled = <<>> /\ uncomputedRead = FALSE /\ ptiData = <<>>
UnusedLater == UnusedOpt /\ UnusedConfig /\ UnusedGradient /\ UnusedCalls
UnusedStages == UnusedCnr /\ UnusedInv /\ UnusedScan /\ UnusedLater

Init ==
  /\ stream \in InputFiles
  /\ onlineMeasurement \in BOOLEAN
  /\ pos = 0
  /\ good = TRUE
  /\ handle = "none"
  /\ rawData = ZeroBlock
  /\ inPhase = <<>>
  /\ quadratur = <<>>
  /\ dc = NoDc
  /\ ac = NoAc
  /\ header = <<>>
  /\ rows = <<>>
  /\ pc = "start"
  /\ exitCode = NoExit
  /\ iter = 0
  /\ calls = <<>>
  /\ readLog = <<>>
  /\ UnusedC
  /\ UnusedRef
  /\ UnusedStages

\* lines 13-37: the output file and its header line, the input stream and
\* its 30-byte header, the zero-filled raw block and reference arrays
MainSetup ==
  /\ pc = "start"
  /\ header' = DecimationHeader
  /\ handle' = "open"
  /\ LET r == IstreamRead([pos |-> 0, good |-> TRUE],
                          Zeros(HEADER_SIZE), HEADER_SIZE)
     IN  /\ pos' = r.pos
         /\ good' = r.good
  /\ rawData' = ZeroBlock
  /\ inPhase' = Zeros(samples)
  /\ quadratur' = Zeros(samples)
  /\ pc' = "loop"
  /\ UNCHANGED <<stream, onlineMeasurement, dc, ac, rows, exitCode, iter,
                 calls, readLog, mode, reader, closes, staleIO, ref, refResult, stageVars>>

\* binaryData.peek() == EOF: the stream is not good, or no byte is left
PeekIsEOF == ~good \/ pos >= Len(stream)

\* lines 38-45, at the end of the stream in an offline run: break
LoopBreak ==
  /\ pc = "loop"
  /\ PeekIsEOF
  /\ ~onlineMeasurement
  /\ good' = FALSE
  /\ pc' = "return"
  /\ UNCHANGED <<stream, pos, handle, onlineMeasurement, rawData, inPhase,
                 quadratur, dc, ac, header, rows, exitCode, iter, calls,
                 readLog, mode, reader, closes, staleIO, ref, refResult, stageVars>>

\* lines 38-45, otherwise: go on to the body.  An online run goes on at the
\* end of the stream as well (the branch at line 40 is empty).
LoopEnter ==
  /\ pc = "loop"
  /\ ~PeekIsEOF \/ onlineMeasurement
  /\ onlineMeasurement => iter < MaxIter
  /\ good' = (good /\ ~PeekIsEOF)
  /\ iter' = iter + 1
  /\ calls' = <<>>
  /\ pc' = "read"
  /\ UNCHANGED <<stream, pos, handle, onlineMeasurement, rawData, inPhase,
                 quadratur, dc, ac, header, rows, exitCode, readLog, mode, reader,
                 closes, staleIO, ref, refResult, stageVars>>

\* line 46
ReadBinary ==
  /\ pc = "read"
  /\ LET r == readBinary([pos |-> pos, good |-> good], rawData)
     IN  /\ pos' = r.pos
         /\ good' = r.good
         /\ rawData' = r.raw
         /\ readLog' = Append(readLog, [from |-> pos, to |-> r.pos])
  /\ calls' = Append(calls, "readBinary")
  /\ pc' = "dc"
  /\ UNCHANGED <<stream, handle, onlineMeasurement, inPhase, quadratur, dc,
                 ac, header, rows, exitCode, iter, mode, reader, closes, staleIO,
                 ref, refResult, stageVars>>

\* line 47
CalculateDc ==
  /\ pc = "dc"
  /\ dc' = calculate_dc(rawData)
  /\ calls' = Append(calls, "calculate_dc")
  /\ pc' = "dc2"
  /\ UNCHANGED <<stream, pos, good, handle, onlineMeasurement, rawData,
                 inPhase, quadratur, ac, header, rows, exitCode, iter,
                 readLog, mode, reader, closes, staleIO, ref, refResult, stageVars>>

\* line 48: the call whose result is dropped
CalculateDcAgain ==
  /\ pc = "dc2"
  /\ calls' = Append(calls, "calculate_dc")
  /\ pc' = "filter"
  /\ UNCHANGED <<stream, pos, good, handle, onlineMeasurement, rawData,
                 inPhase, quadratur, dc, ac, header, rows, exitCode, iter,
                 readLog, mode, reader, closes, staleIO, ref, refResult, stageVars>>

\* line 49
LockInFilter ==
  /\ pc = "filter"
  /\ ac' = lockInFilter(rawData, inPhase, quadratur)
  /\ calls' = Append(calls, "lockInFilter")
  /\ pc' = "write"
  /\ UNCHANGED <<stream, pos, good, handle, onlineMeasurement, rawData,
                 inPhase, quadratur, dc, header, rows, exitCode, iter,
                 readLog, mode, reader, closes, staleIO, ref, refResult, stageVars>>

\* lines 50-56
WriteRow ==
  /\ pc = "write"
  /\ rows' = Append(rows, CppRow(dc, ac))
  /\ pc' = "loop"
  /\ UNCHANGED <<stream, pos, good, handle, onlineMeasurement, rawData,
                 inPhase, quadratur, dc, ac, header, exitCode, iter, calls,
                 readLog, mode, reader, closes, staleIO, ref, refResult, stageVars>>

\* line 58: return 0; the streams are closed by their destructors
MainReturn ==
  /\ pc = "return"
  /\ exitCode' = 0
  /\ handle' = "closed"
  /\ pc' = "done"
  /\ UNCHANGED <<stream, pos, good, onlineMeasurement, rawData, inPhase,
                 quadratur, dc, ac, header, rows, iter, calls, readLog,
                 mode, reader, closes, staleIO, ref, refResult, stageVars>>

Next ==
  \/ MainSetup
  \/ LoopBreak
  \/ LoopEnter
  \/ ReadBinary
  \/ CalculateDc
  \/ CalculateDcAgain
  \/ LockInFilter
  \/ WriteRow
  \/ MainReturn

Spec == Init /\ [][Next]_vars

(***************************************************************************)
(* The reference generator on its own                                      *)
(***************************************************************************)
\* 0.0, 0.5 and 1.0 in sixteenths
Levels == {0, 8, 16}

InitRef ==
  /\ ref \in [1..RefSamples -> Levels]
  /\ refResult = <<>>
  /\ pc = "ref"
  /\ stream = <<>> /\ pos = 0 /\ good = TRUE /\ handle = "none"
  /\ onlineMeasurement = FALSE /\ rawData = ZeroBlock
  /\ inPhase = <<>> /\ quadratur = <<>> /\ dc = NoDc /\ ac = NoAc
  /\ header = <<>> /\ rows = <<>> /\ exitCode = NoExit /\ iter = 0
  /\ calls = <<>> /\ readLog = <<>>
  /\ UnusedC
  /\ UnusedStages

GenerateReferences ==
  /\ pc = "ref"
  /\ refResult' = generateReferences(ref)
  /\ exitCode' = IF refResult'.status = "exit1" THEN 1 ELSE NoExit
  /\ pc' = "refdone"
  /\ UNCHANGED <<stream, pos, good, handle, onlineMeasurement, rawData,
                 inPhase, quadratur, dc, ac, header, rows, iter, calls,
                 readLog, mode, reader, closes, staleIO, ref, stageVars>>

NextRef == GenerateReferences

SpecRef == InitRef /\ [][NextRef]_vars

(***************************************************************************)
(* The C driver: main of src/decimation/main.c around the block loop of    *)
(* process_measurement, with get_measurement of                            *)
(* src/lock_in_amplifier/read_binary.c                                     *)
(***************************************************************************)
\* the modes parse_command_line can set; NORMAL is the initial value
Modes == {"NORMAL", "DEBUG", "VERBOSE"}

NoAcC == [X |-> [ch \in 1..channels |-> <<>>],
          Y |-> [ch \in 1..channels |-> <<>>]]
NoDcC == [DC_1 |-> <<>>, DC_2 |-> <<>>, DC_3 |-> <<>>]

SaveDataHeader ==
  <<"X1", "Y1", "X2", "Y2", "X3", "Y3", "DC1", "DC2", "DC3">>

\* exit status of a process ended by SIGABRT or SIGSEGV
Crashed == 128 + 6

InitC ==
  /\ stream \in InputFiles
  /\ \/ reader = "lock_in_amplifier" /\ mode \in Modes
     \/ reader = "decimation" /\ mode = "NORMAL"
  /\ onlineMeasurement = FALSE
  /\ pos = 0
  /\ good = TRUE
  /\ handle = "none"
  /\ rawData = ZeroBlock
  /\ inPhase = <<>>
  /\ quadratur = <<>>
  /\ dc = NoDcC
  /\ ac = NoAcC
  /\ header = <<>>
  /\ rows = <<>>
  /\ pc = "cstart"
  /\ exitCode = NoExit
  /\ iter = 0
  /\ calls = <<>>
  /\ readLog = <<>>
  /\ closes = 0
  /\ staleIO = 0
  /\ UnusedRef
  /\ UnusedStages

\* fread(buf, size, count, file) with n = size * count: copies what is left
\* of the stream, at most n bytes
Fread(p, buf, n) ==
  LET avail == Len(stream) - p
      cnt   == IF avail < n THEN avail ELSE n
  IN  [pos |-> p + cnt,
       buf |-> [i \in 1..Len(buf) |->
                  IF i <= cnt THEN stream[p + i] ELSE buf[i]]]

RECURSIVE FreadChannels(_, _, _)
FreadChannels(p, raw, n) ==
  IF n = 0 THEN [pos |-> p, raw |-> raw]
  ELSE LET before == FreadChannels(p, raw, n - 1)
           c      == ChannelNames[n]
           r      == Fread(before.pos, before.raw[c], SizeofDouble * samples)
       IN  [pos |-> r.pos, raw |-> [before.raw EXCEPT ![c] = r.buf]]

\* the reads of get_measurement on an open handle: only case DEBUG reads
\* (the two preamble integers, then the seven arrays); NORMAL and VERBOSE
\* fall to default and read nothing
get_measurement(m, p, raw) ==
  IF m = "DEBUG"
  THEN FreadChannels(Fread(Fread(p, Zeros(SizeofInt), SizeofInt).pos,
                           Zeros(SizeofInt), SizeofInt).pos, raw, 7)
  ELSE [pos |-> p, raw |-> raw]

\* get_measurement of src/decimation/read_binary.c: the two preamble
\* integers, then the seven arrays, in every call
get_measurement_decimation(p, raw) ==
  FreadChannels(Fread(Fread(p, Zeros(SizeofInt), SizeofInt).pos,
                      Zeros(SizeofInt), SizeofInt).pos, raw, 7)

PatternBlock(p) ==
  [c \in {"dc1", "dc2", "dc3", "ref", "ac1", "ac2", "ac3"} |->
     EncodeAll(PatternChannel(p, c))]

generate_references(raw) == generateReferences(Doubles(raw.ref))

filter_signals(raw, a, in_phase, quad) ==
  [X |-> [ch \in 1..channels |->
            AddDiv(a.X[ch], Correlate(AcChannel(raw, ch), in_phase))],
   Y |-> [ch \in 1..channels |->
            AddDiv(a.Y[ch], Correlate(AcChannel(raw, ch), quad))]]

calculate_dc_c(d, raw) ==
  [DC_1 |-> AddDiv(d.DC_1, AddAll(Doubles(raw.dc1))),
   DC_2 |-> AddDiv(d.DC_2, AddAll(Doubles(raw.dc2))),
   DC_3 |-> AddDiv(d.DC_3, AddAll(Doubles(raw.dc3)))]

\* the fields of one row as save_data prints them: every value is followed
\* by a comma, the last one too, which leaves an empty tenth field
save_data(a, d) ==
  <<a.X[1], a.Y[1], a.X[2], a.Y[2], a.X[3], a.Y[3], d.DC_1, d.DC_2, d.DC_3,
    "">>

\* main.c lines 7-17 and open_file: the input handle with its header
\* skipped, the output file with its header line
CMainSetup ==
  /\ pc = "cstart"
  /\ handle' = "open"
  /\ pos' = Fread(0, Zeros(HEADER_SIZE), HEADER_SIZE).pos
  /\ header' = SaveDataHeader
  /\ rawData' = ZeroBlock
  /\ inPhase' = Zeros(samples)
  /\ quadratur' = Zeros(samples)
  /\ ac' = NoAcC
  /\ dc' = NoDcC
  /\ pc' = "cloop"
  /\ UNCHANGED <<stream, good, onlineMeasurement, rows, exitCode, iter,
                 calls, readLog, mode, reader, closes, staleIO, ref, refResult, stageVars>>

\* for (second = 0; second < DATA_SIZE; second++)
CLoopEnter ==
  /\ pc = "cloop"
  /\ iter < DATA_SIZE
  /\ calls' = <<>>
  /\ pc' = "cread"
  /\ UNCHANGED <<stream, pos, good, handle, onlineMeasurement, rawData,
                 inPhase, quadratur, dc, ac, header, rows, exitCode, iter,
                 readLog, mode, reader, closes, staleIO, ref, refResult, stageVars>>

CLoopExit ==
  /\ pc = "cloop"
  /\ iter >= DATA_SIZE
  /\ pc' = "creturn"
  /\ UNCHANGED <<stream, pos, good, handle, onlineMeasurement, rawData,
                 inPhase, quadratur, dc, ac, header, rows, exitCode, iter,
                 calls, readLog, mode, reader, closes, staleIO, ref, refResult, stageVars>>

\* get_measurement of src/decimation/read_binary.c
GetMeasurementDecimation ==
  /\ pc = "cread"
  /\ reader = "decimation"
  /\ LET r == get_measurement_decimation(pos, rawData)
     IN  /\ pos' = r.pos
         /\ rawData' = r.raw
         /\ readLog' = Append(readLog, [from |-> pos, to |-> r.pos])
  /\ calls' = Append(calls, "get_measurement")
  /\ pc' = "cref"
  /\ UNCHANGED <<stream, good, handle, onlineMeasurement, inPhase,
                 quadratur, dc, ac, header, rows, exitCode, iter, mode,
                 reader, closes, staleIO, ref, refResult, stageVars>>

\* get_measurement of src/lock_in_amplifier/read_binary.c on the open
\* handle: the reads of the mode, then fclose
GetMeasurement ==
  /\ pc = "cread"
  /\ reader = "lock_in_amplifier"
  /\ handle = "open"
  /\ LET r == get_measurement(mode, pos, rawData)
     IN  /\ pos' = r.pos
         /\ rawData' = r.raw
         /\ readLog' = Append(readLog, [from |-> pos, to |-> r.pos])
  /\ handle' = "closed"
  /\ closes' = closes + 1
  /\ calls' = Append(calls, "get_measurement")
  /\ pc' = "cref"
  /\ UNCHANGED <<stream, good, onlineMeasurement, inPhase, quadratur, dc,
                 ac, header, rows, exitCode, iter, mode, reader, staleIO, ref,
                 refResult, stageVars>>

\* get_measurement on the handle it closed in an earlier call: fread and
\* fclose on a closed FILE are undefined.  The calls fail and leave the raw
\* block as it was, or the reads store arbitrary samples, or the process
\* is killed.
GetMeasurementStale ==
  /\ pc = "cread"
  /\ reader = "lock_in_amplifier"
  /\ handle = "closed"
  /\ staleIO' = staleIO + 1
  /\ closes' = closes + 1
  /\ \/ /\ rawData' = rawData
        /\ pc' = "cref"
        /\ exitCode' = exitCode
     \/ /\ mode = "DEBUG"
        /\ rawData' \in {PatternBlock(p) : p \in PatternNames}
        /\ pc' = "cref"
        /\ exitCode' = exitCode
     \/ /\ rawData' = rawData
        /\ pc' = "crashed"
        /\ exitCode' = Crashed
  /\ readLog' = Append(readLog, [from |-> pos, to |-> pos])
  /\ calls' = Append(calls, "get_measurement")
  /\ UNCHANGED <<stream, pos, good, handle, onlineMeasurement, inPhase,
                 quadratur, dc, ac, header, rows, iter, mode, reader, ref,
                 refResult, stageVars>>

\* generate_references: exit(1) when no period was counted; exit closes
\* the streams that are still open
GenerateReferencesC ==
  /\ pc = "cref"
  /\ LET r == generate_references(rawData)
     IN  IF r.status = "exit1"
         THEN /\ exitCode' = 1
              /\ pc' = "exited"
              /\ handle' = "closed"
              /\ closes' = IF handle = "open" THEN closes + 1 ELSE closes
              /\ UNCHANGED <<inPhase, quadratur>>
         ELSE /\ inPhase' = r.inPhase
              /\ quadratur' = r.quadratur
              /\ pc' = "cfilter"
              /\ UNCHANGED <<exitCode, handle, closes>>
  /\ calls' = Append(calls, "generate_references")
  /\ UNCHANGED <<stream, pos, good, onlineMeasurement, rawData, dc, ac,
                 header, rows, iter, readLog, mode, reader, staleIO, ref,
                 refResult, stageVars>>

FilterSignals ==
  /\ pc = "cfilter"
  /\ ac' = filter_signals(rawData, ac, inPhase, quadratur)
  /\ calls' = Append(calls, "filter_signals")
  /\ pc' = "cdc"
  /\ UNCHANGED <<stream, pos, good, handle, onlineMeasurement, rawData,
                 inPhase, quadratur, dc, header, rows, exitCode, iter,
                 readLog, mode, reader, closes, staleIO, ref, refResult, stageVars>>

CalculateDcC ==
  /\ pc = "cdc"
  /\ dc' = calculate_dc_c(dc, rawData)
  /\ calls' = Append(calls, "calculate_dc")
  /\ pc' = "csave"
  /\ UNCHANGED <<stream, pos, good, handle, onlineMeasurement, rawData,
                 inPhase, quadratur, ac, header, rows, exitCode, iter,
                 readLog, mode, reader, closes, staleIO, ref, refResult, stageVars>>

SaveData ==
  /\ pc = "csave"
  /\ rows' = Append(rows, save_data(ac, dc))
  /\ iter' = iter + 1
  /\ pc' = "cloop"
  /\ UNCHANGED <<stream, pos, good, handle, onlineMeasurement, rawData,
                 inPhase, quadratur, dc, ac, header, exitCode, calls,
                 readLog, mode, reader, closes, staleIO, ref, refResult, stageVars>>

\* main.c lines 19-21: fclose(binary_file), on a handle that
\* get_measurement has closed already; return 0
CMainReturn ==
  /\ pc = "creturn"
  /\ closes' = closes + 1
  /\ staleIO' = IF handle = "closed" THEN staleIO + 1 ELSE staleIO
  /\ handle' = "closed"
  /\ \/ /\ pc' = "done"
        /\ exitCode' = 0
     \/ /\ handle = "closed"
        /\ pc' = "crashed"
        /\ exitCode' = Crashed
  /\ UNCHANGED <<stream, pos, good, onlineMeasurement, rawData, inPhase,
                 quadratur, dc, ac, header, rows, iter, calls, readLog,
                 mode, reader, ref, refResult, stageVars>>

NextC ==
  \/ CMainSetup
  \/ CLoopEnter
  \/ CLoopExit
  \/ GetMeasurementDecimation
  \/ GetMeasurement
  \/ GetMeasurementStale
  \/ GenerateReferencesC
  \/ FilterSignals
  \/ CalculateDcC
  \/ SaveData
  \/ CMainReturn

SpecC == InitC /\ [][NextC]_vars

(***************************************************************************)
(* Properties                                                              *)
(***************************************************************************)
\* the last call of the reader consumed a whole block
LastReadWhole ==
  /\ readLog # <<>>
  /\ readLog[Len(readLog)].to - readLog[Len(readLog)].from = BlockBytes

\* offset of block k (0-based) in the file
BlockStart(k) == HEADER_SIZE + k * BlockBytes

\* the bytes of channel n (1..7) of block k in the file
ChannelRange(k, n) ==
  SubSeq(stream,
         BlockStart(k) + PreambleBytes + (n - 1) * ChannelBytes + 1,
         BlockStart(k) + PreambleBytes + n * ChannelBytes)

\* C1: the call of the reader for block k, for every block k the file holds
\* whole, starts at offset 30 + k * (8 + 56 * S) (the 30-byte header was
\* consumed once, before block 0), consumes exactly 8 + 56 * S bytes, and
\* leaves in each of the seven arrays, in the order dc1 dc2 dc3 ref ac1 ac2
\* ac3, the S * 8 bytes of its own consecutive range after the 8 preamble
\* bytes.
C1_ReaderLayout ==
  \A i \in 1..Len(readLog) :
    BlockStart(i - 1) + BlockBytes <= Len(stream) =>
      /\ readLog[i].from = BlockStart(i - 1)
      /\ readLog[i].to = BlockStart(i - 1) + 8 + 7 * 8 * samples
      /\ (pc = "dc" /\ i = Len(readLog)) =>
            \A n \in 1..7 :
              rawData[ChannelNames[n]] = ChannelRange(i - 1, n)

\* C1 witness: the second block of a file was read whole
C1_Witness ==
  /\ pc = "dc"
  /\ Len(readLog) = 2
  /\ readLog[2].to = BlockStart(2)
  /\ rawData.ref = ChannelRange(1, 4)
  /\ rawData.ref # rawData.ac1

\* the raw block holds only doubles the model follows
Followed(raw) ==
  \A n \in 1..7 : \A i \in 1..samples :
    Doubles(raw[ChannelNames[n]])[i] # Exotic

\* C2: every row holds the mean of its own block's dc_d samples and the
\* sums of its own block's ac_d samples with that block's reference pair,
\* divided by S * 1000; nothing of an earlier block is carried into it.
\* (Stated of the row the C loop has just saved, whose block was read whole
\* and is still in raw_data, in runs without a stdio call on a closed
\* handle.)
C2_RowFromOwnBlock ==
  ( /\ pc = "cloop" /\ rows # <<>> /\ staleIO = 0
    /\ LastReadWhole /\ Followed(rawData) ) =>
    LET row == rows[Len(rows)]
        r   == generate_references(rawData)
    IN  /\ EqualsRatio(row[7], samples, AddAll(Doubles(rawData.dc1)))
        /\ EqualsRatio(row[8], samples, AddAll(Doubles(rawData.dc2)))
        /\ EqualsRatio(row[9], samples, AddAll(Doubles(rawData.dc3)))
        /\ \A ch \in 1..channels :
             /\ EqualsRatio(row[2 * ch - 1], samples * amplification,
                            Correlate(AcChannel(rawData, ch), r.inPhase))
             /\ EqualsRatio(row[2 * ch], samples * amplification,
                            Correlate(AcChannel(rawData, ch), r.quadratur))

IsRising(r, s) == Below10th(r[s + 1]) /\ Above9_10th(r[s + 2])
IsFalling(r, s) == Above9_10th(r[s + 1]) /\ Below10th(r[s + 2])
HasRising(r) == \E s \in 0..(Len(r) - 2) : IsRising(r, s)
FirstRising(r) ==
  CHOOSE s \in 0..(Len(r) - 2) :
    IsRising(r, s) /\ \A u \in 0..(s - 1) : ~IsRising(r, u)

\* C3: for every ref array with at least one rising edge the phase anchor
\* is the index of the first rising edge, wherever the falling edges are.
C3_AnchorIsFirstRising ==
  (pc = "refdone" /\ refResult.status = "ok" /\ HasRising(ref)) =>
    refResult.phase_shift = FirstRising(ref)

\* the accumulation as the specification words it: the first rising edge
\* adds nothing; a later rising edge adds 2 * (s - lastFall) and counts,
\* if a falling edge was recorded before it
RECURSIVE SpecifiedScan(_, _)
SpecifiedScan(r, n) ==
  IF n <= 0
  THEN [acc |-> 0, count |-> 0, lastFall |-> 0, seenFall |-> FALSE,
        seenRise |-> FALSE]
  ELSE LET st == SpecifiedScan(r, n - 1)
           s  == n - 1
       IN  IF IsFalling(r, s)
           THEN [st EXCEPT !.lastFall = s, !.seenFall = TRUE]
           ELSE IF IsRising(r, s)
           THEN IF st.seenRise /\ st.seenFall
                THEN [st EXCEPT !.acc = @ + 2 * (s - st.lastFall),
                                !.count = @ + 1]
                ELSE [st EXCEPT !.seenRise = TRUE]
           ELSE st

\* C4: a rising edge at s adds 2 * (s - lastFall) to the period accumulator
\* and increments the count only if it is not the first rising edge and a
\* falling edge was recorded before it; T is the accumulator divided by the
\* count.
C4_PeriodAccumulation ==
  pc = "refdone" =>
    /\ refResult.period = SpecifiedScan(ref, Len(ref) - 1).acc
    /\ refResult.signals = SpecifiedScan(ref, Len(ref) - 1).count

\* r is a square wave of levels 0 and 1 with period T, high for H samples
\* of each period, whose first rising edge is at index phi0
IsSquareWave(r, T, H, phi0) ==
  \A s \in 0..(Len(r) - 1) :
    r[s + 1] = IF (s - phi0 - 1) % T < H THEN 16 ELSE 0

\* C5: for a pure square wave of integer period T with first rising edge at
\* phi0 and at least two rising edges in the block, T - 1 <= T* <= T + 1
\* and the phase anchor is phi0.
C5_SquareWaveEstimate ==
  pc = "refdone" =>
    \A T \in 2..RefSamples : \A phi0 \in 0..(T - 1) :
      \A H \in {T \div 2, T - (T \div 2)} :
        (IsSquareWave(ref, T, H, phi0) /\ phi0 + T <= Len(ref) - 2) =>
          /\ refResult.status = "ok"
          /\ refResult.phase_shift = phi0
          /\ (T - 1) * refResult.signals <= refResult.period
          /\ refResult.period <= (T + 1) * refResult.signals

\* C6: for a block whose ref channel yields a zero period count no row is
\* written, and an offline run that met such a block ends with a non-zero
\* exit code.  (Stated of the offline C++ loop: when a row was just written
\* for the whole block in rawData, that block's ref yields a count, and a
\* run that returns 0 met no block without one.)
C6_NoRowWithoutModulation ==
  /\ ( /\ ~onlineMeasurement /\ pc = "loop" /\ iter > 0
       /\ Len(rows) = iter /\ LastReadWhole /\ Followed(rawData) ) =>
       generate_references(rawData).status = "ok"
  /\ ( /\ ~onlineMeasurement /\ pc = "done" /\ exitCode = 0
       /\ LastReadWhole /\ Followed(rawData) ) =>
       generate_references(rawData).status = "ok"

\* C7: a file that ends inside a block (at least one byte, fewer than
\* 8 + 56 * S bytes after the last whole block) gives no row from the
\* partial block and a fatal error; a file that ends at a block boundary
\* ends the loop cleanly with one row per whole block.
C7_TruncatedBlockFatal ==
  (~onlineMeasurement /\ Len(stream) >= HEADER_SIZE) =>
    /\ Len(rows) <= WholeBlocks(stream)
    /\ (pc = "done" /\ TailBytes(stream) > 0) => exitCode # 0
    /\ (pc = "done" /\ TailBytes(stream) = 0) =>
          (exitCode = 0 /\ Len(rows) = WholeBlocks(stream))

\* C8: for a file of k whole blocks after the header the offline block
\* loop writes exactly k rows, never more, none from data past the end of
\* the stream.  (Stated of runs without a stdio call on a closed handle.)
C8_OneRowPerBlock ==
  (Len(stream) >= HEADER_SIZE /\ TailBytes(stream) = 0 /\ staleIO = 0) =>
    /\ Len(rows) <= WholeBlocks(stream)
    /\ pc = "done" => Len(rows) = WholeBlocks(stream)

\* C9: the input handle is released exactly once on every exit path and no
\* read is issued on it after it was closed.
C9_HandleReleasedOnce ==
  /\ closes <= 1
  /\ staleIO = 0
  /\ pc = "done" => closes = 1

\* C10: in every block iteration common-noise rejection runs after the DC
\* means are computed and before the lock-in accumulation, so the lock-in
\* sums read noise-corrected AC samples only.  (Stated of the iterations of
\* the offline C++ loop that read a whole block.)
C10_RejectionBeforeLockIn ==
  (pc = "write" /\ ~onlineMeasurement /\ LastReadWhole) =>
    \E i, j, k \in 1..Len(calls) :
      /\ i < j /\ j < k
      /\ calls[i] = "calculate_dc"
      /\ calls[j] = "commonNoiseRejection"
      /\ calls[k] = "lockInFilter"

\* C12: the output begins with the header line
\* DC1,DC2,DC3,X1,Y1,X2,Y2,X3,Y3 and every row holds the nine values of its
\* block in that column order: the three DC means, then X and Y of detector
\* 1, 2 and 3.  (Stated of the output of the C loop, of the row it has just
\* saved.)
C12_HeaderAndColumnOrder ==
  /\ header # <<>> =>
        header = <<"DC1", "DC2", "DC3", "X1", "Y1", "X2", "Y2", "X3", "Y3">>
  /\ (pc = "cloop" /\ rows # <<>>) =>
        rows[Len(rows)] = <<dc.DC_1, dc.DC_2, dc.DC_3,
                            ac.X[1], ac.Y[1], ac.X[2], ac.Y[2],
                            ac.X[3], ac.Y[3]>>

(***************************************************************************)
(* Double arithmetic                                                       *)
(*                                                                         *)
(* The stages below compute with double: every +, -, * and / rounds its    *)
(* exact result to the nearest value with MantissaBits significant bits,   *)
(* ties to even.  A value is an integer count of 1/Unit; results that are  *)
(* not finite numbers (a division by zero, a magnitude of MaxDouble or     *)
(* more, and what follows from them) are Exotic.                           *)
(***************************************************************************)
\* significand bits of a double (53 in the source), scaled down
MantissaBits == 6
\* the smallest normal value is 2^(MantissaBits - 1) / Unit = 1/32
Unit == 16 * Pow2(MantissaBits)
\* the finite doubles are below 16.0 in magnitude (1.8e308 in the source)
MaxDouble == 16 * Unit

AbsInt(x) == IF x < 0 THEN 0 - x ELSE x
SignInt(x) == IF x < 0 THEN 0 - 1 ELSE 1

\* the spacing of the doubles around n/d (n >= 0, d > 0), from q upwards
RECURSIVE QuantumFrom(_, _, _)
QuantumFrom(q, n, d) ==
  IF 2 * q * Pow2(MantissaBits - 1) * d <= n
    THEN QuantumFrom(2 * q, n, d)
    ELSE q

\* n/m (n >= 0, m > 0) rounded to the nearest integer, ties to even
RoundHalfEven(n, m) ==
  LET f == n \div m
      r == n % m
  IN IF 2 * r > m \/ (2 * r = m /\ f % 2 = 1) THEN f + 1 ELSE f

\* the double nearest to n/d (d > 0)
FlRound(n, d) ==
  IF n = 0 THEN 0
  ELSE LET q == QuantumFrom(1, AbsInt(n), d)
           m == RoundHalfEven(AbsInt(n), d * q) * q
       IN IF m >= MaxDouble THEN Exotic ELSE SignInt(n) * m

FAdd(a, b) == IF a = Exotic \/ b = Exotic THEN Exotic ELSE FlRound(a + b, 1)
FSub(a, b) == IF a = Exotic \/ b = Exotic THEN Exotic ELSE FlRound(a - b, 1)
FMul(a, b) ==
  IF a = Exotic \/ b = Exotic THEN Exotic ELSE FlRound(a * b, Unit)
FDiv(a, b) ==
  IF a = Exotic \/ b = Exotic \/ b = 0 THEN Exotic
  ELSE FlRound(SignInt(b) * a * Unit, AbsInt(b))

(***************************************************************************)
(* Common noise rejection: commonNoiseRejection of                         *)
(* src/decimation/CommonNoiseRecjection.cpp, as a function of the AC       *)
(* arrays of one raw block and of one dcSignal                             *)
(***************************************************************************)
\* double totalDC = dcSignal.dc1 + dcSignal.dc2 + dcSignal.dc3
TotalDC(dcSignal) == FAdd(FAdd(dcSignal.dc1, dcSignal.dc2), dcSignal.dc3)

\* noise = rawData.ac1[sample] + rawData.ac2[sample] + rawData.ac3[sample]
NoiseAt(raw, s) == FAdd(FAdd(raw.ac1[s], raw.ac2[s]), raw.ac3[s])

\* rawData.ac1[sample] - dcSignal.dc1 / totalDC * noise
Rejected(sample, dcd, totalDC, noise) ==
  FSub(sample, FMul(FDiv(dcd, totalDC), noise))

\* a variant that takes the noise of each channel from the samples as they
\* are at that moment, the channels before it already updated
commonNoiseRejectionRunningNoise(raw, dcSignal) ==
  LET totalDC == TotalDC(dcSignal)
      n1(s) == NoiseAt(raw, s)
      a1(s) == Rejected(raw.ac1[s], dcSignal.dc1, totalDC, n1(s))
      n2(s) == FAdd(FAdd(a1(s), raw.ac2[s]), raw.ac3[s])
      a2(s) == Rejected(raw.ac2[s], dcSignal.dc2, totalDC, n2(s))
      n3(s) == FAdd(FAdd(a1(s), a2(s)), raw.ac3[s])
      a3(s) == Rejected(raw.ac3[s], dcSignal.dc3, totalDC, n3(s))
  IN [ac1 |-> [s \in 1..samples |-> a1(s)],
      ac2 |-> [s \in 1..samples |-> a2(s)],
      ac3 |-> [s \in 1..samples |-> a3(s)]]

commonNoiseRejection(raw, dcSignal) ==
  LET totalDC == TotalDC(dcSignal)
  IN [ac1 |-> [s \in 1..samples |->
                 Rejected(raw.ac1[s], dcSignal.dc1, totalDC, NoiseAt(raw, s))],
      ac2 |-> [s \in 1..samples |->
                 Rejected(raw.ac2[s], dcSignal.dc2, totalDC, NoiseAt(raw, s))],
      ac3 |-> [s \in 1..samples |->
                 Rejected(raw.ac3[s], dcSignal.dc3, totalDC, NoiseAt(raw, s))]]

\* DC means the stage is run on: -0.5, 1, 2, 3
DcValues == {0 - (Unit \div 2), Unit, 2 * Unit, 3 * Unit}
\* AC samples the stage is run on: -1, 0.5, 1
AcValues == {0 - Unit, Unit \div 2, Unit}

\* the AC array of channel d when the samples of the three channels are
\* a[1], a[2], a[3] at the even indices and the same rotated by one channel
\* at the odd ones
Alternating(a, d) ==
  [s \in 1..samples |-> IF s % 2 = 1 THEN a[d] ELSE a[(d % 3) + 1]]

UnusedDecimation ==
  /\ stream = <<>> /\ pos = 0 /\ good = TRUE /\ handle = "none"
  /\ onlineMeasurement = FALSE /\ rawData = ZeroBlock
  /\ inPhase = <<>> /\ quadratur = <<>> /\ dc = NoDc /\ ac = NoAc
  /\ header = <<>> /\ rows = <<>> /\ exitCode = NoExit /\ iter = 0
  /\ calls = <<>> /\ readLog = <<>>
  /\ UnusedC
  /\ UnusedRef

decimationVars ==
  <<stream, pos, good, handle, onlineMeasurement, rawData, inPhase,
    quadratur, dc, ac, header, rows, exitCode, iter, calls, readLog, mode,
    reader, closes, staleIO, ref, refResult>>

InitCnr ==
  /\ pc = "cnr"
  /\ cnrDc \in [dc1 : DcValues, dc2 : DcValues, dc3 : DcValues]
  /\ \E a \in [1..3 -> AcValues] :
       cnrIn = [ac1 |-> Alternating(a, 1),
                ac2 |-> Alternating(a, 2),
                ac3 |-> Alternating(a, 3)]
  /\ cnrRaw = cnrIn
  /\ UnusedDecimation
  /\ UnusedLater
  /\ UnusedInv
  /\ UnusedScan

CommonNoiseRejection ==
  /\ pc = "cnr"
  /\ cnrRaw' = commonNoiseRejection(cnrRaw, cnrDc)
  /\ pc' = "cnrdone"
  /\ UNCHANGED <<laterVars, decimationVars, cnrDc, cnrIn, invVars, scanVars>>

NextCnr == CommonNoiseRejection

SpecCnr == InitCnr /\ [][NextCnr]_vars

\* the exact sum of the three AC samples at index s
AcSum(raw, s) == raw.ac1[s] + raw.ac2[s] + raw.ac3[s]
AcMagnitude(raw, s) ==
  AbsInt(raw.ac1[s]) + AbsInt(raw.ac2[s]) + AbsInt(raw.ac3[s])
Finite(raw, s) ==
  raw.ac1[s] # Exotic /\ raw.ac2[s] # Exotic /\ raw.ac3[s] # Exotic
PositiveDc == cnrDc.dc1 > 0 /\ cnrDc.dc2 > 0 /\ cnrDc.dc3 > 0

Infinity == 1000000000

IsNumber(v) == v # Exotic /\ v # Infinity /\ v # 0 - Infinity

\* n/d (d > 0) rounded to the nearest integer
RoundDiv(n, d) ==
  IF n >= 0 THEN (2 * n + d) \div (2 * d)
            ELSE 0 - ((2 * (0 - n) + d) \div (2 * d))

\* a + b: an infinity absorbs a number, inf - inf is NaN
MAdd(a, b) ==
  IF a = Exotic \/ b = Exotic THEN Exotic
  ELSE IF IsNumber(a) /\ IsNumber(b) THEN a + b
  ELSE IF IsNumber(b) THEN a
  ELSE IF IsNumber(a) \/ a = b THEN b
  ELSE Exotic
MNeg(a) == IF a = Exotic THEN Exotic ELSE 0 - a
MSub(a, b) == MAdd(a, MNeg(b))
MMul(a, b) ==
  IF IsNumber(a) /\ IsNumber(b) THEN RoundDiv(a * b, 1000) ELSE Exotic
\* a / b: x / 0 is an infinity, 0 / 0 is NaN
MDivide(a, b) ==
  IF ~(IsNumber(a) /\ IsNumber(b)) THEN Exotic
  ELSE IF b = 0
    THEN IF a = 0 THEN Exotic ELSE IF a > 0 THEN Infinity ELSE 0 - Infinity
  ELSE RoundDiv(SignInt(b) * a * 1000, AbsInt(b))
\* fabs
MAbs(a) == IF a = Exotic THEN Exotic ELSE AbsInt(a)
\* a > b on doubles: false when one of them is NaN
MGreater(a, b) == a # Exotic /\ b # Exotic /\ a > b

\* the largest r in lo..hi with r * r <= n
RECURSIVE RootBetween(_, _, _)
RootBetween(lo, hi, n) ==
  IF lo >= hi THEN lo
  ELSE LET mid == (lo + hi + 1) \div 2
       IN IF mid * mid <= n THEN RootBetween(mid, hi, n)
                            ELSE RootBetween(lo, mid - 1, n)

\* sqrt: NaN for a negative argument
MSqrt(a) ==
  IF ~IsNumber(a) \/ a < 0 THEN Exotic
  ELSE LET r == RootBetween(0, 40000, a * 1000)
       IN IF (r + 1) * (r + 1) - a * 1000 < a * 1000 - r * r
            THEN r + 1 ELSE r

\* cos and sin of an angle in degrees, a multiple of 5
CosDeg(d) == CosMilli(d \div 5, 72)
SinDeg(d) == SinMilli(d \div 5, 72)

\* detector1, detector2, detector3 of enum Channel, as indices of a slot
Detectors == 1..channels

\* the revisions of Inversion.cpp
Revisions == {"Cpp", "measurement"}

\* the constructor's choice of _minIntensities and _maxIntensities
ConfiguredMin(rev, cfg) ==
  IF rev = "Cpp" /\ cfg.phases_swapped
    THEN <<cfg.min_intensities[1], cfg.min_intensities[3],
           cfg.min_intensities[2]>>
    ELSE cfg.min_intensities
ConfiguredMax(rev, cfg) ==
  IF rev = "Cpp" /\ cfg.phases_swapped
    THEN <<cfg.max_intensities[1], cfg.max_intensities[2],
           cfg.max_intensities[2]>>
    ELSE cfg.max_intensities

\* the constructor's loop body for row i without the branch on
\* _swappPhases: every slot takes its own columns
IngestOwnColumns(d, i, swapped) ==
  [dc |-> <<d.DC1[i], d.DC2[i], d.DC3[i]>>,
   ac |-> <<[inPhaseComponent |-> d.X1[i], qudraturComponent |-> d.Y1[i]],
            [inPhaseComponent |-> d.X2[i], qudraturComponent |-> d.Y2[i]],
            [inPhaseComponent |-> d.X3[i], qudraturComponent |-> d.Y3[i]]>>]

\* the constructor's loop body for row i
Ingest(d, i, swapped) ==
  IF swapped
    THEN
      [dc |-> <<d.DC1[i], d.DC3[i], d.DC2[i]>>,
       ac |-> <<[inPhaseComponent |-> d.X1[i], qudraturComponent |-> d.Y1[i]],
                [inPhaseComponent |-> d.X3[i], qudraturComponent |-> d.Y3[i]],
                [inPhaseComponent |-> d.X2[i],
                 qudraturComponent |-> d.Y2[i]]>>]
    ELSE
      [dc |-> <<d.DC1[i], d.DC2[i], d.DC3[i]>>,
       ac |-> <<[inPhaseComponent |-> d.X1[i], qudraturComponent |-> d.Y1[i]],
                [inPhaseComponent |-> d.X2[i], qudraturComponent |-> d.Y2[i]],
                [inPhaseComponent |-> d.X3[i],
                 qudraturComponent |-> d.Y3[i]]>>]

\* dc[channel] = 2 * (dc[channel] - min) / (max - min) - 1
Scaled(v, lo, hi) ==
  MSub(MDivide(MMul(2000, MSub(v, lo)), MSub(hi, lo)), 1000)

scaleSignals(dcs, lo, hi) ==
  [i \in 1..Len(dcs) |->
     [ch \in Detectors |-> Scaled(dcs[i][ch], lo[ch], hi[ch])]]

\* the candidate roots of one detector: axis "x" or "y", branch 0 (+) or
\* 1 (-), from its scaled dc and its output phase
Root(axis, branch, dcv, phase) ==
  LET s == MSqrt(MSub(1000, MMul(dcv, dcv)))
      a == MMul(dcv, IF axis = "x" THEN CosDeg(phase) ELSE SinDeg(phase))
      b == MMul(s, IF axis = "x" THEN SinDeg(phase) ELSE CosDeg(phase))
  IN IF branch = 0 THEN MAdd(a, b) ELSE MSub(a, b)

\* what one array cell holds: a value, and the root that was stored there
Cell(axis, ch, branch, dcv, phase) ==
  [val |-> Root(axis, branch, dcv, phase), axis |-> axis, detector |-> ch,
   branch |-> branch]
\* a cell of a zero-initialised array that no root was stored in
ZeroCell == [val |-> 0, axis |-> "none", detector |-> 0, branch |-> 0]

\* src/Cpp/inversion: x and y are std::array<std::array<double, 3>, 2>, six
\* doubles each, indexed [channel][branch] with channel up to 2; the cell
\* [channel][branch] is the double 3 * channel + branch of the array, and
\* for channel 2 that is past its end.  Where it lands depends on where the
\* build places x and y: side by side in either order, or apart.
Layouts == {"xBeforeY", "yBeforeX", "apart"}
ArrayBase(lay, axis) ==
  IF axis = "x" THEN (IF lay = "yBeforeX" THEN 6 ELSE 0)
                ELSE (IF lay = "xBeforeY" THEN 6
                      ELSE IF lay = "yBeforeX" THEN 0 ELSE 10)
CellAddress(lay, axis, channel, branch) ==
  ArrayBase(lay, axis) + 3 * (channel - 1) + branch

\* lines 78-83: the stores of one row, in program order
RootStores(lay, dcRow, phases) ==
  [n \in 1..12 |->
     LET ch     == ((n - 1) \div 4) + 1
         axis   == IF (n - 1) % 4 < 2 THEN "x" ELSE "y"
         branch == (n - 1) % 2
     IN [addr |-> CellAddress(lay, axis, ch, branch),
         cell |-> Cell(axis, ch, branch, dcRow[ch], phases[ch])]] \o <<>>

\* what a load of address a returns after the stores w
Loaded(w, a) ==
  LET at == {n \in 1..Len(w) : w[n].addr = a}
  IN IF at = {} THEN ZeroCell
     ELSE w[CHOOSE n \in at : \A m \in at : m <= n].cell

\* fabs(a - b) + fabs(a - c) + fabs(b - c)
TripleError(a, b, c) ==
  MAdd(MAdd(MAbs(MSub(a, b)), MAbs(MSub(a, c))), MAbs(MSub(b, c)))

\* the selection loop over the candidate triples c, in loop order, from the
\* state before the loop: a triple replaces the current one when
\* current_error > error
RECURSIVE SelectTriple(_, _)
SelectTriple(c, cur) ==
  IF c = <<>> THEN cur
  ELSE LET e == TripleError(c[1][1].val, c[1][2].val, c[1][3].val)
       IN SelectTriple(Tail(c),
            IF MGreater(cur.error, e) THEN [error |-> e, cells |-> c[1]]
                                      ELSE cur)

\* lines 90-92 of src/Cpp/inversion: i, j, k in 0..1, k innermost
SignTriples ==
  [n \in 1..8 |-> [i |-> (n - 1) \div 4, j |-> ((n - 1) \div 2) % 2,
                   k |-> (n - 1) % 2]]

\* the memory around x and y after the stores of one row: the doubles at
\* the addresses 0..17, as a sequence
CppMemory(lay, dcRow, phases) ==
  LET w == RootStores(lay, dcRow, phases)
  IN [a \in 1..18 |-> Loaded(w, a - 1)] \o <<>>

\* <<x[0][i], x[1][k], x[2][j]>> for every i, j, k
CppCandidates(lay, m, axis) ==
  [n \in 1..8 |->
     <<m[CellAddress(lay, axis, 1, SignTriples[n].i) + 1],
       m[CellAddress(lay, axis, 2, SignTriples[n].k) + 1],
       m[CellAddress(lay, axis, 3, SignTriples[n].j) + 1]>>] \o <<>>

\* src/measurement: x and y are std::array<double, 6>; x[channel] is the +
\* root and x[channel + channels] the - root
FlatCell(axis, n, dcRow, phases) ==
  Cell(axis, ((n - 1) % 3) + 1, (n - 1) \div 3, dcRow[((n - 1) % 3) + 1],
       phases[((n - 1) % 3) + 1])

\* the index triples i < j < k of 0..5 in loop order, here as 1..6
RECURSIVE IndexTriplesFrom(_, _, _)
IndexTriplesFrom(i, j, k) ==
  IF i > 4 THEN <<>>
  ELSE IF j > 5 THEN IndexTriplesFrom(i + 1, i + 2, i + 3)
  ELSE IF k > 6 THEN IndexTriplesFrom(i, j + 1, j + 2)
  ELSE <<<<i, j, k>>>> \o IndexTriplesFrom(i, j, k + 1)
IndexTriples == IndexTriplesFrom(1, 2, 3)

\* <<x[i], x[j], x[k]>> for every i < j < k
MeasurementCandidates(axis, dcRow, phases) ==
  LET m == [n \in 1..6 |-> FlatCell(axis, n, dcRow, phases)] \o <<>>
  IN [n \in 1..Len(IndexTriples) |->
        <<m[IndexTriples[n][1]], m[IndexTriples[n][2]],
          m[IndexTriples[n][3]]>>] \o <<>>

\* the selected cells of one row for one axis
SelectedCells(rev, lay, axis, dcRow, phases) ==
  IF rev = "Cpp"
    THEN SelectTriple(CppCandidates(lay, CppMemory(lay, dcRow, phases),
                                    axis),
                      [error |-> Infinity,
                       cells |-> <<ZeroCell, ZeroCell, ZeroCell>>]).cells
    ELSE SelectTriple(MeasurementCandidates(axis, dcRow, phases),
                      [error |-> 6000,
                       cells |-> <<FlatCell(axis, 1, dcRow, phases),
                                   FlatCell(axis, 1, dcRow, phases),
                                   FlatCell(axis, 1, dcRow, phases)>>]).cells

\* the mean of the three selected values
MeanOf(cells) ==
  MDivide(MAdd(MAdd(cells[1].val, cells[2].val), cells[3].val), 3000)

\* atan2(y_value, x_value): the model keeps the direction (x, y) the angle
\* stands for
calculateInterferomticPhase(rev, lay, dcs, phases) ==
  [i \in 1..Len(dcs) |->
     LET xs == SelectedCells(rev, lay, "x", dcs[i], phases)
         ys == SelectedCells(rev, lay, "y", dcs[i], phases)
     IN [x |-> xs, y |-> ys,
         phase |-> [y_value |-> MeanOf(ys), x_value |-> MeanOf(xs)]]] \o <<>>

\* sqrt(x * x + y * y)
Hypot(x, y) ==
  IF ~(IsNumber(x) /\ IsNumber(y)) THEN Exotic
  ELSE LET n == x * x + y * y
           r == RootBetween(0, 40000, n)
       IN IF (r + 1) * (r + 1) - n < n - r * r THEN r + 1 ELSE r

\* sin(_interferometricPhase[i] - _outputPhases[channel]).  It is zero only
\* where the difference of the two doubles is zero, and the model follows
\* that for the phase atan2(0, x) = 0 with x > 0 and the output phase 0; a
\* difference of pi, or one that is zero only after rounding, leaves the
\* smallest value of the model
PhaseSin(ph, phase) ==
  IF ~(IsNumber(ph.x_value) /\ IsNumber(ph.y_value)) THEN Exotic
  ELSE LET r   == Hypot(ph.x_value, ph.y_value)
           num == MSub(MMul(ph.y_value, CosDeg(phase)),
                       MMul(ph.x_value, SinDeg(phase)))
           s   == MDivide(num, r)
       IN IF r = 0 THEN 0 - SinDeg(phase)
          ELSE IF s # 0 THEN s
          ELSE IF num # 0 THEN SignInt(num)
          ELSE IF ph.y_value = 0 /\ ph.x_value > 0 /\ phase = 0 THEN 0
          ELSE 1

\* R * cos(acPhase - _systemPhases[channel]) with R = sqrt(X^2 + Y^2) and
\* acPhase = atan2(Y, X)
Demodulated(acd, phase) ==
  LET R == Hypot(acd.inPhaseComponent, acd.qudraturComponent)
      c == IF R = 0 THEN CosDeg(phase)
           ELSE MDivide(MAdd(MMul(acd.inPhaseComponent, CosDeg(phase)),
                             MMul(acd.qudraturComponent, SinDeg(phase))), R)
  IN MMul(R, c)

\* lines 118-126 for the channels 1..n of one row
RECURSIVE Accumulated(_, _, _, _, _, _)
Accumulated(n, ph, acRow, cfg, lo, hi) ==
  IF n = 0 THEN [ptiSignal |-> 0, weight |-> 0]
  ELSE LET acc  == Accumulated(n - 1, ph, acRow, cfg, lo, hi)
           s    == PhaseSin(ph, cfg.output_phases[n])
           sign == IF s # Exotic /\ s >= 0 THEN 1 ELSE 0 - 1
           d    == Demodulated(acRow[n], cfg.system_phases[n])
       IN [ptiSignal |->
             MAdd(acc.ptiSignal, IF d = Exotic THEN Exotic ELSE d * sign),
           weight |->
             MAdd(acc.weight,
                  MMul(MDivide(MSub(hi[n], lo[n]), 2000), MAbs(s)))]

\* per row: the weight, and -ptiSignal / weight
calculatePTISignal(phases, acs, cfg, lo, hi) ==
  [i \in 1..Len(acs) |->
     LET acc == Accumulated(channels, phases[i], acs[i], cfg, lo, hi)
     IN [weight |-> acc.weight,
         signal |-> MDivide(MSub(0, acc.ptiSignal), acc.weight)]] \o <<>>

\* the configurations and the decimated rows the engine is run on
Configs ==
  [phases_swapped : BOOLEAN,
   output_phases : {<<0, 0, 0>>, <<0, 120, 240>>},
   system_phases : {<<0, 0, 0>>},
   min_intensities : {<<0, 0, 0>>},
   max_intensities : {<<2000, 2000, 2000>>, <<2000, 2000, 4000>>}]
DcReadings ==
  {<<2000, 2000, 2000>>, <<2000, 500, 500>>, <<2000, 500, 2000>>,
   <<2000, 2000, 500>>, <<500, 500, 500>>, <<500, 500, 0>>,
   <<500, 2000, 0>>, <<2500, 500, 2000>>}
AcReadings ==
  {[X |-> <<100, 200, 300>>, Y |-> <<0, 0, 0>>],
   [X |-> <<0, 0, 0>>, Y |-> <<400, 300, 200>>]}
\* a second row, present in the longer files
UsualRow == [DC |-> <<2000, 500, 500>>, X |-> <<100, 200, 300>>,
             Y |-> <<0, 0, 0>>]
\* the columns of a file of n rows whose first row is r
Columns(r, n) ==
  LET rs == IF n = 1 THEN <<r>> ELSE <<r, UsualRow>>
  IN [DC1 |-> [i \in 1..n |-> rs[i].DC[1]], DC2 |-> [i \in 1..n |-> rs[i].DC[2]],
      DC3 |-> [i \in 1..n |-> rs[i].DC[3]],
      X1 |-> [i \in 1..n |-> rs[i].X[1]], Y1 |-> [i \in 1..n |-> rs[i].Y[1]],
      X2 |-> [i \in 1..n |-> rs[i].X[2]], Y2 |-> [i \in 1..n |-> rs[i].Y[2]],
      X3 |-> [i \in 1..n |-> rs[i].X[3]], Y3 |-> [i \in 1..n |-> rs[i].Y[3]]]

InitInv ==
  /\ pc = "inv"
  /\ revision \in Revisions
  /\ layout \in IF revision = "Cpp" THEN Layouts ELSE {"none"}
  /\ ptiConfig \in Configs
  /\ \E d \in DcReadings, a \in AcReadings, n \in 1..2 :
       data = Columns([DC |-> d, X |-> a.X, Y |-> a.Y], n)
  /\ swappPhases = FALSE /\ minIntensities = <<>> /\ maxIntensities = <<>>
  /\ dcSignals = <<>> /\ acSignals = <<>> /\ selected = <<>>
  /\ interferometricPhase = <<>> /\ weights = <<>> /\ ptiSignal = <<>>
  /\ UnusedDecimation
  /\ UnusedLater
  /\ UnusedCnr
  /\ UnusedScan

\* PTIMain.cpp line 14: the constructor
ConstructInversion ==
  /\ pc = "inv"
  /\ swappPhases' = ptiConfig.phases_swapped
  /\ minIntensities' = ConfiguredMin(revision, ptiConfig)
  /\ maxIntensities' = ConfiguredMax(revision, ptiConfig)
  /\ dcSignals' = [i \in 1..Len(data.DC1) |->
                     Ingest(data, i, ptiConfig.phases_swapped).dc]
  /\ acSignals' = [i \in 1..Len(data.DC1) |->
                     Ingest(data, i, ptiConfig.phases_swapped).ac]
  /\ pc' = "scale"
  /\ UNCHANGED <<laterVars, decimationVars, cnrVars, scanVars, revision, layout, ptiConfig, data,
                 selected, interferometricPhase, weights, ptiSignal>>

\* PTIMain.cpp line 15
ScaleSignals ==
  /\ pc = "scale"
  /\ dcSignals' = scaleSignals(dcSignals, minIntensities, maxIntensities)
  /\ pc' = "phase"
  /\ UNCHANGED <<laterVars, decimationVars, cnrVars, scanVars, revision, layout, ptiConfig, data,
                 swappPhases, minIntensities, maxIntensities, acSignals,
                 selected, interferometricPhase, weights, ptiSignal>>

\* PTIMain.cpp line 16
CalculateInterferomticPhase ==
  /\ pc = "phase"
  /\ LET r == calculateInterferomticPhase(revision, layout, dcSignals,
                                          ptiConfig.output_phases)
     IN /\ selected' = [i \in 1..Len(r) |-> [x |-> r[i].x, y |-> r[i].y]]
        /\ interferometricPhase' = [i \in 1..Len(r) |-> r[i].phase]
  /\ pc' = "pti"
  /\ UNCHANGED <<laterVars, decimationVars, cnrVars, scanVars, revision, layout, ptiConfig, data,
                 swappPhases, minIntensities, maxIntensities, dcSignals,
                 acSignals, weights, ptiSignal>>

\* PTIMain.cpp line 17
CalculatePTISignal ==
  /\ pc = "pti"
  /\ LET r == calculatePTISignal(interferometricPhase, acSignals, ptiConfig,
                                 minIntensities, maxIntensities)
     IN /\ weights' = [i \in 1..Len(r) |-> r[i].weight]
        /\ ptiSignal' = [i \in 1..Len(r) |-> r[i].signal]
  /\ pc' = "save"
  /\ UNCHANGED <<laterVars, decimationVars, cnrVars, scanVars, revision, layout, ptiConfig, data,
                 swappPhases, minIntensities, maxIntensities, dcSignals,
                 acSignals, selected, interferometricPhase>>

\* PTIMain.cpp lines 18-22: the columns are saved, return 0
SavePTIData ==
  /\ pc = "save"
  /\ header' = <<"PTI Signal", "Interferometric Phase">>
  /\ rows' = [i \in 1..Len(ptiSignal) |->
                <<ptiSignal[i], interferometricPhase[i]>>]
  /\ exitCode' = 0
  /\ pc' = "saved"
  /\ UNCHANGED <<stream, pos, good, handle, onlineMeasurement, rawData,
                 inPhase, quadratur, dc, ac, iter, calls, readLog, mode,
                 reader, closes, staleIO, ref, refResult, stageVars>>

NextInv ==
  \/ ConstructInversion
  \/ ScaleSignals
  \/ CalculateInterferomticPhase
  \/ CalculatePTISignal
  \/ SavePTIData

SpecInv == InitInv /\ [][NextInv]_vars

\* the rows whose phase has been computed, and those among them whose three
\* scaled dc values lie in [-1, 1]
PhaseRows == 1..Len(selected)
InRange(i) ==
  \A ch \in Detectors :
    IsNumber(dcSignals[i][ch]) /\ AbsInt(dcSignals[i][ch]) <= 1000

\* the selected cells hold one root of each detector, taken from the axis
\* they are selected for
OneRootPerDetector(cells, axis) ==
  /\ \A n \in 1..3 : cells[n].axis = axis
  /\ {cells[n].detector : n \in 1..3} = Detectors

\* no sign-triple of the row's own roots has a smaller disagreement than the
\* selected cells
MinimalOverSignTriples(cells, axis, dcRow, phases) ==
  \A n \in 1..8 :
    ~MGreater(TripleError(cells[1].val, cells[2].val, cells[3].val),
              TripleError(Root(axis, SignTriples[n].i, dcRow[1], phases[1]),
                          Root(axis, SignTriples[n].j, dcRow[2], phases[2]),
                          Root(axis, SignTriples[n].k, dcRow[3], phases[3])))

\* C13: on every row (here: every row whose scaled dc values are in
\* [-1, 1]) the three selected x-roots and the three selected y-roots are one
\* root per detector, and each triple minimises the pairwise disagreement
\* among the 8 sign-triples of the row
C13_OneRootPerDetectorMinimal ==
  \A i \in PhaseRows :
    InRange(i) =>
      /\ OneRootPerDetector(selected[i].x, "x")
      /\ OneRootPerDetector(selected[i].y, "y")
      /\ MinimalOverSignTriples(selected[i].x, "x", dcSignals[i],
                                ptiConfig.output_phases)
      /\ MinimalOverSignTriples(selected[i].y, "y", dcSignals[i],
                                ptiConfig.output_phases)

\* the columns (DC, X, Y) of detector d in row i of the decimated file
FileColumns(d, i) ==
  IF d = 1 THEN <<data.DC1[i], data.X1[i], data.Y1[i]>>
  ELSE IF d = 2 THEN <<data.DC2[i], data.X2[i], data.Y2[i]>>
  ELSE <<data.DC3[i], data.X3[i], data.Y3[i]>>
\* what the slot ch of the engine holds for row i: the dc value as ingested
\* (read before scaleSignals has run) and the AC components
SlotAc(ch, i) ==
  <<acSignals[i][ch].inPhaseComponent, acSignals[i][ch].qudraturComponent>>
SlotHolds(ch, i, d) ==
  /\ SlotAc(ch, i) = <<FileColumns(d, i)[2], FileColumns(d, i)[3]>>
  /\ pc = "scale" => dcSignals[i][ch] = FileColumns(d, i)[1]

\* C14: once the engine is constructed, for every row the slot of detector 1
\* holds (DC1, X1, Y1); with the swapped flag the slot of detector 2 holds
\* (DC3, X3, Y3) and that of detector 3 holds (DC2, X2, Y2); without it
\* every slot holds its own columns
C14_SwapOnIngestion ==
  pc \in {"scale", "phase", "pti", "save", "saved"} =>
    /\ swappPhases = ptiConfig.phases_swapped
    /\ Len(acSignals) = Len(data.DC1) /\ Len(dcSignals) = Len(data.DC1)
    /\ \A i \in 1..Len(data.DC1) :
         /\ SlotHolds(1, i, 1)
         /\ SlotHolds(2, i, IF ptiConfig.phases_swapped THEN 3 ELSE 2)
         /\ SlotHolds(3, i, IF ptiConfig.phases_swapped THEN 2 ELSE 3)

C14_Witness ==
  /\ pc = "scale" /\ swappPhases
  /\ Len(data.DC1) = 2
  /\ data.DC2[1] # data.DC3[1] /\ data.X2[1] # data.X3[1]
  /\ dcSignals[1][2] = data.DC3[1] /\ dcSignals[1][3] = data.DC2[1]
  /\ acSignals[1][2].inPhaseComponent = data.X3[1]

\* C15: a row whose total weight is zero is emitted with NaN as its PTI
\* signal, never with an infinity
C15_ZeroWeightGivesNaN ==
  pc \in {"save", "saved"} =>
    \A i \in 1..Len(ptiSignal) : weights[i] = 0 => ptiSignal[i] = Exotic

\* C16: after scaleSignals every dc value is in [-1, 1], so that no root of
\* a row is computed from the square root of a negative number
C16_ScaledDcInUnitRange ==
  pc \in {"phase", "pti", "save", "saved"} =>
    \A i \in 1..Len(dcSignals) : \A ch \in Detectors :
      /\ IsNumber(dcSignals[i][ch])
      /\ AbsInt(dcSignals[i][ch]) <= 1000
      /\ MSqrt(MSub(1000, MMul(dcSignals[i][ch], dcSignals[i][ch]))) # Exotic

(***************************************************************************)
(* Phase scan: src/Cpp/phase_scan/OutputPhase.cpp driven as by             *)
(* src/phase_scan/PhaseScanMain.cpp                                        *)
(*                                                                         *)
(* DC values are doubles counted in thousandths, angles are doubles        *)
(* counted in thousandths of a degree (M_PI is 180000).                    *)
(***************************************************************************)
\* the number of rows of the phase-scan file
SweepLen == 4
\* setSignal leaves the last 75000 samples out of the minimum and maximum;
\* the model leaves out the last TailExcluded
TailExcluded == 1
\* calculateBands takes the first 2000 samples; the model the first
\* BandSamples
BandSamples == 3

\* M_PI and 2 * M_PI
Pi == 180000
TwoPi == 360000

\* a < b on doubles: false when one of them is NaN
MLess(a, b) == a # Exotic /\ b # Exotic /\ a < b

\* acos, to the nearest multiple of 5 degrees: NaN outside [-1, 1]
\* the largest k in lo..hi with cos(5k degrees) >= v
RECURSIVE AcosIndex(_, _, _)
AcosIndex(lo, hi, v) ==
  IF lo >= hi THEN lo
  ELSE LET mid == (lo + hi + 1) \div 2
       IN IF CosDeg(5 * mid) >= v THEN AcosIndex(mid, hi, v)
                                  ELSE AcosIndex(lo, mid - 1, v)
AcosDeg(v) ==
  IF ~IsNumber(v) \/ AbsInt(v) > 1000 THEN Exotic
  ELSE LET k == AcosIndex(0, 36, v)
       IN IF k < 36 /\ v - CosDeg(5 * (k + 1)) < CosDeg(5 * k) - v
            THEN 5000 * (k + 1) ELSE 5000 * k

\* *std::min_element and *std::max_element of a non-empty range
RECURSIVE MinElement(_)
MinElement(s) ==
  IF Len(s) = 1 THEN s[1]
  ELSE LET m == MinElement(SubSeq(s, 1, Len(s) - 1))
       IN IF MLess(s[Len(s)], m) THEN s[Len(s)] ELSE m
RECURSIVE MaxElement(_)
MaxElement(s) ==
  IF Len(s) = 1 THEN s[1]
  ELSE LET m == MaxElement(SubSeq(s, 1, Len(s) - 1))
       IN IF MLess(m, s[Len(s)]) THEN s[Len(s)] ELSE m

\* setSignal: the rows of _signal, minIntensities and maxIntensities
setSignal(signals) ==
  [signal |-> [i \in 1..Len(signals[1]) |->
                 <<signals[1][i], signals[2][i], signals[3][i]>>],
   minIntensities |->
     [d \in Detectors |->
        MinElement(SubSeq(signals[d], 1, Len(signals[d]) - TailExcluded))],
   maxIntensities |->
     [d \in Detectors |->
        MaxElement(SubSeq(signals[d], 1, Len(signals[d]) - TailExcluded))]]

\* OutputPhase::scaleSignals
scaleSweep(signal, lo, hi) ==
  [i \in 1..Len(signal) |->
     [d \in Detectors |-> Scaled(signal[i][d], lo[d], hi[d])]]

\* line 36-41: the candidate of one sample for the signs i and j
Candidate(dc1, dcd, i, j) ==
  LET a     == AcosDeg(dc1)
      b     == AcosDeg(dcd)
      phase == MAdd(IF i = 0 THEN a ELSE MNeg(a),
                    IF j = 0 THEN b ELSE MNeg(b))
  IN IF MLess(phase, 0) THEN MAdd(phase, TwoPi) ELSE phase

\* calculateBands(detector): what it appends to _bands[detector - 1],
\* detector counted from 1 here
calculateBands(signal, detector) ==
  [n \in 1..(4 * BandSamples) |->
     Candidate(signal[((n - 1) \div 4) + 1][1],
               signal[((n - 1) \div 4) + 1][detector],
               ((n - 1) \div 2) % 2, (n - 1) % 2)]

\* the first i with a sign change between s[i] and s[i + 1], counted from 0,
\* in a column s that is followed in memory by the value past; 0 if there is
\* none
Crossing(a, b) ==
  \/ MGreater(a, 0) /\ MLess(b, 0)
  \/ MLess(a, 0) /\ MGreater(b, 0)
FirstCrossing(s, past) ==
  LET ext == s \o <<past>>
      at  == {i \in 0..(Len(s) - 1) : Crossing(ext[i + 1], ext[i + 2])}
  IN IF at = {} THEN 0 ELSE CHOOSE i \in at : \A k \in at : i <= k
\* the search evaluates _signal[i + 1] at i = size - 1, one past the end of
\* the vector, when no earlier sample ended it and _signal[size - 1] is a
\* non-zero number
ReadsPastEnd(s) ==
  /\ \A i \in 0..(Len(s) - 2) : ~Crossing(s[i + 1], s[i + 2])
  /\ (MGreater(s[Len(s)], 0) \/ MLess(s[Len(s)], 0))

LeqPi(phase) == phase # Exotic /\ phase <= Pi
GtPi(phase) == MGreater(phase, Pi)

\* std::remove_if whose return value is dropped: the elements that are not
\* removed move to the front in order, the vector keeps its length, and the
\* positions behind them keep the value they had
RemoveIfLeqPi(band) ==
  LET kept == SelectSeq(band, LAMBDA p : ~LeqPi(p))
  IN kept \o SubSeq(band, Len(kept) + 1, Len(band))
RemoveIfGtPi(band) ==
  LET kept == SelectSeq(band, LAMBDA p : ~GtPi(p))
  IN kept \o SubSeq(band, Len(kept) + 1, Len(band))

Column(signal, d) == [i \in 1..Len(signal) |-> signal[i][d]]

\* setBandRange, for the values past2 and past3 that a read of
\* _signal[size] returns
setBandRange(signal, b, swapped, past2, past3) ==
  LET indexDetector2 == FirstCrossing(Column(signal, 2), past2)
      indexDetector3 == FirstCrossing(Column(signal, 3), past3)
  IN IF indexDetector2 < indexDetector3
       THEN [bands |-> <<RemoveIfLeqPi(b[1]), RemoveIfGtPi(b[2])>>,
             swappedPhases |-> TRUE,
             index |-> <<indexDetector2, indexDetector3>>]
       ELSE [bands |-> <<RemoveIfGtPi(b[1]), RemoveIfLeqPi(b[2])>>,
             swappedPhases |-> swapped,
             index |-> <<indexDetector2, indexDetector3>>]

\* static_cast<size_t>(sqrt(n))
FloorSqrt(n) == RootBetween(0, n, n)

\* calculateHistogram: the lower edges ranges[0..numberOfBins - 1]
HistogramRanges(d) ==
  LET numberOfBins == FloorSqrt(Len(d))
      min   == MinElement(d)
      max   == MaxElement(d)
      diff  == MSub(max, min)
      width == IF IsNumber(diff) THEN RoundDiv(diff, numberOfBins)
               ELSE Exotic
  IN [i \in 1..numberOfBins |->
        MAdd(min, IF width = Exotic THEN Exotic ELSE width * (i - 1))]

\* the bucket an element is counted in: ranges[i] for the first
\* i < numberOfBins - 1 with ranges[i] <= element < ranges[i + 1]; Exotic
\* when the loop ends without counting it
BucketOf(element, ranges) ==
  LET at == {i \in 1..(Len(ranges) - 1) :
               /\ ~MLess(element, ranges[i]) /\ element # Exotic
               /\ ranges[i] # Exotic
               /\ MLess(element, ranges[i + 1])}
  IN IF at = {} THEN Exotic
     ELSE ranges[CHOOSE i \in at : \A k \in at : i <= k]

\* calculateHistogram: the map from bucket to count
calculateHistogram(d) ==
  LET ranges  == HistogramRanges(d)
      buckets == {BucketOf(d[k], ranges) : k \in 1..Len(d)} \ {Exotic}
  IN [b \in buckets |->
        Cardinality({k \in 1..Len(d) : BucketOf(d[k], ranges) = b})]

\* calculateOutputPhases: the values it can return.  The loop keeps the
\* first bucket of maximal count in the iteration order of the
\* unordered_map, which is any of them; 0 for an empty map
calculateOutputPhases(band) ==
  LET bins == calculateHistogram(band)
  IN IF DOMAIN bins = {} THEN {0}
     ELSE {b \in DOMAIN bins : \A c \in DOMAIN bins : bins[c] <= bins[b]}

\* PhaseScanMain.cpp lines 25-39: the options added to the configuration
Options(outputPhase_1, outputPhase_2, swapped, lo, hi) ==
  [output_phases |->
     IF MGreater(outputPhase_1, Pi)
       THEN <<0, outputPhase_2, outputPhase_1>>
       ELSE <<0, outputPhase_1, outputPhase_2>>,
   phases_swapped |-> swapped,
   min_intensities |-> lo, max_intensities |-> hi]

\* the phase-scan files the program is run on: DC1 is one of two ramps, DC2
\* and DC3 take any values on the samples that setSignal looks at and one
\* value on the samples behind them
SweepValues == {0, 1000, 2000}
TailValues == {0, 2000}
Ramps == {[i \in 1..SweepLen |-> 1000 * ((3 - i) % 3)],
          [i \in 1..SweepLen |-> 1000 * (i % 3)]}
Columns23 ==
  {[i \in 1..SweepLen |-> IF i <= SweepLen - TailExcluded THEN h[i] ELSE v] :
     h \in [1..(SweepLen - TailExcluded) -> SweepValues], v \in TailValues}
Sweeps == {<<a, b, c>> : a \in Ramps, b \in Columns23, c \in Columns23}
\* what a read one element past the end of _signal can return: a negative
\* number, zero or a positive one
PastValues == {0 - 1000, 0, 1000}

InitScan ==
  /\ pc = "scan"
  /\ sweep \in Sweeps
  /\ scanSignal = <<>> /\ scanMin = <<0, 0, 0>> /\ scanMax = <<0, 0, 0>>
  /\ bands = <<<<>>, <<>>>> /\ swappedPhases = FALSE /\ indexDetector = <<>>
  /\ pastEnd = FALSE /\ outputPhase = <<>> /\ scanConfig = <<>>
  /\ UnusedDecimation
  /\ UnusedLater
  /\ UnusedCnr
  /\ UnusedInv

\* PhaseScanMain.cpp line 18
SetSignal ==
  /\ pc = "scan"
  /\ LET r == setSignal(sweep)
     IN /\ scanSignal' = r.signal
        /\ scanMin' = r.minIntensities
        /\ scanMax' = r.maxIntensities
  /\ pc' = "scanSet"
  /\ UNCHANGED <<laterVars, decimationVars, cnrVars, invVars, sweep, bands,
                 swappedPhases, indexDetector, pastEnd, outputPhase,
                 scanConfig>>

\* PhaseScanMain.cpp line 19
ScaleSweep ==
  /\ pc = "scanSet"
  /\ scanSignal' = scaleSweep(scanSignal, scanMin, scanMax)
  /\ pc' = "scanScaled"
  /\ UNCHANGED <<laterVars, decimationVars, cnrVars, invVars, sweep, scanMin, scanMax,
                 bands, swappedPhases, indexDetector, pastEnd, outputPhase,
                 scanConfig>>

\* PhaseScanMain.cpp lines 20 and 21: calculateBands(Detector_2) and then
\* calculateBands(Detector_3)
CalculateBands(detector) ==
  /\ pc = (IF detector = 2 THEN "scanScaled" ELSE "band2")
  /\ bands' = [bands EXCEPT ![detector - 1] =
                 @ \o calculateBands(scanSignal, detector)]
  /\ pc' = (IF detector = 2 THEN "band2" ELSE "band3")
  /\ UNCHANGED <<laterVars, decimationVars, cnrVars, invVars, sweep, scanSignal,
                 scanMin, scanMax, swappedPhases, indexDetector, pastEnd,
                 outputPhase, scanConfig>>

\* PhaseScanMain.cpp line 22
SetBandRange ==
  /\ pc = "band3"
  /\ \E past2 \in PastValues, past3 \in PastValues :
       LET r == setBandRange(scanSignal, bands, swappedPhases, past2, past3)
       IN /\ bands' = r.bands
          /\ swappedPhases' = r.swappedPhases
          /\ indexDetector' = r.index
  /\ pastEnd' = (\/ ReadsPastEnd(Column(scanSignal, 2))
                 \/ ReadsPastEnd(Column(scanSignal, 3)))
  /\ pc' = "ranged"
  /\ UNCHANGED <<laterVars, decimationVars, cnrVars, invVars, sweep, scanSignal,
                 scanMin, scanMax, outputPhase, scanConfig>>

\* PhaseScanMain.cpp lines 23 and 24
CalculateOutputPhases(detector) ==
  /\ pc = (IF detector = 2 THEN "ranged" ELSE "out2")
  /\ \E bucket \in calculateOutputPhases(bands[detector - 1]) :
       outputPhase' = Append(outputPhase, bucket)
  /\ pc' = (IF detector = 2 THEN "out2" ELSE "out3")
  /\ UNCHANGED <<laterVars, decimationVars, cnrVars, invVars, sweep, scanSignal,
                 scanMin, scanMax, bands, swappedPhases, indexDetector,
                 pastEnd, scanConfig>>

\* PhaseScanMain.cpp lines 25-41
WriteConfig ==
  /\ pc = "out3"
  /\ scanConfig' = Options(outputPhase[1], outputPhase[2], swappedPhases,
                           scanMin, scanMax)
  /\ pc' = "scanWritten"
  /\ UNCHANGED <<laterVars, decimationVars, cnrVars, invVars, sweep, scanSignal,
                 scanMin, scanMax, bands, swappedPhases, indexDetector,
                 pastEnd, outputPhase>>

NextScan ==
  \/ SetSignal
  \/ ScaleSweep
  \/ CalculateBands(2)
  \/ CalculateBands(3)
  \/ SetBandRange
  \/ CalculateOutputPhases(2)
  \/ CalculateOutputPhases(3)
  \/ WriteConfig

SpecScan == InitScan /\ [][NextScan]_vars

\* the sweep has a zero crossing in the column s, and the index of its first
\* one, counted from 0
HasCrossing(s) == \E i \in 1..(Len(s) - 1) : Crossing(s[i], s[i + 1])
FirstZeroCrossing(s) ==
  CHOOSE i \in 0..(Len(s) - 2) :
    /\ Crossing(s[i + 1], s[i + 2])
    /\ \A k \in 0..(i - 1) : ~Crossing(s[k + 1], s[k + 2])
BothCross ==
  HasCrossing(Column(scanSignal, 2)) /\ HasCrossing(Column(scanSignal, 3))
AfterBandRange == pc \in {"ranged", "out2", "out3", "scanWritten"}
AllOf(band, P(_)) == \A n \in 1..Len(band) : P(band[n])

\* C17: after setBandRange, on a sweep where both detectors cross zero: if
\* detector 2 crosses first, swapped is true, the detector-2 band holds only
\* candidates <= pi and the detector-3 band only candidates > pi; otherwise
\* swapped is false, the detector-2 band holds only candidates > pi and the
\* detector-3 band only candidates <= pi
C17_BandsHoldOnlyRetained ==
  (AfterBandRange /\ BothCross) =>
    IF FirstZeroCrossing(Column(scanSignal, 2))
         < FirstZeroCrossing(Column(scanSignal, 3))
      THEN /\ swappedPhases
           /\ AllOf(bands[1], LeqPi) /\ AllOf(bands[2], GtPi)
      ELSE /\ ~swappedPhases
           /\ AllOf(bands[1], GtPi) /\ AllOf(bands[2], LeqPi)

\* C18: the zero-crossing search never reads a sample at an index >= L, and
\* no configuration is written for a sweep in which detector 2 or detector
\* 3 has no zero crossing
C18_NoCrossingNoConfig ==
  /\ ~pastEnd
  /\ scanConfig # <<>> => BothCross

\* ceil(sqrt(n))
CeilSqrt(n) == IF FloorSqrt(n) * FloorSqrt(n) = n THEN FloorSqrt(n)
               ELSE FloorSqrt(n) + 1
\* the bin of an element among n equal-width bins over [lo, hi], the
\* element hi in the last one
BinOf(e, lo, hi, n) ==
  IF e = hi THEN n - 1 ELSE ((e - lo) * n) \div (hi - lo)
BinCount(d, b, n) ==
  Cardinality({k \in 1..Len(d) :
                 BinOf(d[k], MinElement(d), MaxElement(d), n) = b})
\* v is the centre of the bin b
IsCentre(v, b, lo, hi, n) == 2 * n * v = 2 * n * lo + (2 * b + 1) * (hi - lo)
CountsTotal(bins) ==
  LET RECURSIVE Total(_)
      Total(S) == IF S = {} THEN 0
                  ELSE LET b == CHOOSE x \in S : TRUE
                       IN bins[b] + Total(S \ {b})
  IN Total(DOMAIN bins)

\* C19: for a band of N numbers that are not all equal, the histogram has
\* ceil(sqrt(N)) bins, its counts add up to N, and the output phase is the
\* centre of a bin of maximal count
C19_ModalBinCentre ==
  (pc \in {"out2", "out3", "scanWritten"} /\ AllOf(bands[1], IsNumber)
     /\ MinElement(bands[1]) < MaxElement(bands[1])) =>
    LET d  == bands[1]
        n  == CeilSqrt(Len(d))
        lo == MinElement(d)
        hi == MaxElement(d)
    IN /\ Len(HistogramRanges(d)) = n
       /\ CountsTotal(calculateHistogram(d)) = Len(d)
       /\ \E b \in 0..(n - 1) :
            /\ IsCentre(outputPhase[1], b, lo, hi, n)
            /\ \A c \in 0..(n - 1) : BinCount(d, c, n) <= BinCount(d, b, n)

\* everything a run of main can write for the scan file s
Calibrations(s) ==
  LET r0  == setSignal(s)
      sig == scaleSweep(r0.signal, r0.minIntensities, r0.maxIntensities)
      b   == <<calculateBands(sig, 2), calculateBands(sig, 3)>>
  IN UNION {
       LET r == setBandRange(sig, b, FALSE, p[1], p[2])
       IN {Options(o1, o2, r.swappedPhases, r0.minIntensities,
                   r0.maxIntensities) :
             o1 \in calculateOutputPhases(r.bands[1]),
             o2 \in calculateOutputPhases(r.bands[2])} :
       p \in PastValues \X PastValues}
\* the scan file with the columns of detector 2 and detector 3 exchanged
Exchanged(s) == <<s[1], s[3], s[2]>>

\* the output-phase values of a written configuration
PhaseValues(o) == {o.output_phases[d] : d \in Detectors}

\* C20: for a sweep on which both detectors cross zero and the search stays
\* inside the sweep, a run on the sweep with the columns of detector 2 and 3
\* exchanged can write the same output-phase values, and writes the
\* opposite swapped flag
C20_ExchangeFlipsSwapped ==
  (pc = "scanWritten" /\ BothCross /\ ~pastEnd) =>
    \E o \in Calibrations(Exchanged(sweep)) :
      /\ PhaseValues(o) = PhaseValues(scanConfig)
      /\ o.phases_swapped = ~scanConfig.phases_swapped

\* C21: every configuration written by a phase-scan run has
\* output_phases.detector_1 = 0, min_intensities.detector_d <
\* max_intensities.detector_d for the three detectors, and every output
\* phase in [0, 2 pi)
C21_PersistedRecordInvariants ==
  scanConfig # <<>> =>
    /\ scanConfig.output_phases[1] = 0
    /\ \A d \in Detectors :
         MLess(scanConfig.min_intensities[d], scanConfig.max_intensities[d])
    /\ \A d \in Detectors :
         /\ IsNumber(scanConfig.output_phases[d])
         /\ 0 <= scanConfig.output_phases[d]
         /\ scanConfig.output_phases[d] < TwoPi

(***************************************************************************)
(* The system-phase optimizer: get_phases of phase_scan/system_phases.c    *)
(***************************************************************************)
\* system_phases.c line 10
MAX_STEPS == 1000

\* every variable outside the optimizer
nonOptVars ==
  <<decimationVars, cnrVars, invVars, scanVars, configVars, gradientVars,
    callVars>>

\* lines 115-135: the minimizer is set to the initial guess, which is the
\* point of zero steps
InitOpt ==
  /\ pc = "get_phases"
  /\ iterations = 0
  /\ status = "none"
  /\ minimizerX = 0
  /\ system_phases = <<>>
  /\ reported = <<>>
  /\ UnusedConfig
  /\ UnusedGradient
  /\ UnusedCalls
  /\ UnusedDecimation
  /\ UnusedCnr
  /\ UnusedInv
  /\ UnusedScan

\* what one pass of the loop body can meet in the library: the iteration
\* fails (the point stays), or it steps and the gradient test answers
IterateOutcomes == {"GSL_ENOPROG", "GSL_SUCCESS", "GSL_CONTINUE"}

\* lines 136-149: one pass of the do-while loop with its condition
Iterate ==
  /\ pc = "get_phases"
  /\ iterations' = iterations + 1
  /\ \E outcome \in IterateOutcomes :
       /\ status' = outcome
       /\ minimizerX' = IF outcome = "GSL_ENOPROG" THEN minimizerX
                        ELSE minimizerX + 1
       /\ pc' = IF outcome = "GSL_CONTINUE" /\ iterations' < MAX_STEPS
                THEN "get_phases" ELSE "loopLeft"
  /\ UNCHANGED <<nonOptVars, system_phases, reported>>

\* lines 150-153: the caller's array receives s->x; nothing is printed
ReturnPhases ==
  /\ pc = "loopLeft"
  /\ system_phases' = <<minimizerX>>
  /\ pc' = "phasesReturned"
  /\ UNCHANGED <<nonOptVars, iterations, status, minimizerX, reported>>

NextOpt == Iterate \/ ReturnPhases

SpecOpt == InitOpt /\ [][NextOpt]_vars

\* the three ways out of the loop
ExitByTolerance == status = "GSL_SUCCESS"
ExitByFailure == status = "GSL_ENOPROG"
ExitByCap == status = "GSL_CONTINUE" /\ iterations = MAX_STEPS

\* C22: the loop makes at most MAX_STEPS iterations; on each of the three
\* exits (tolerance met, iteration failure, cap) the caller receives the
\* minimizer's current vector; and a run that leaves by the cap has reported
\* an OptimizerNonConvergence warning.
C22_BoundedLoopReturnsAndWarns ==
  /\ iterations <= MAX_STEPS
  /\ pc = "phasesReturned" =>
       /\ ExitByTolerance \/ ExitByFailure \/ ExitByCap
       /\ system_phases = <<minimizerX>>
       /\ ExitByCap =>
            \E i \in 1..Len(reported) : reported[i] = "OptimizerNonConvergence"

\* the parts of C22 that do not concern the warning
C22_BoundedLoopReturns ==
  /\ iterations <= MAX_STEPS
  /\ pc = "phasesReturned" =>
       /\ ExitByTolerance \/ ExitByFailure \/ ExitByCap
       /\ system_phases = <<minimizerX>>

(***************************************************************************)
(* The configuration reader: parser/config.cpp, and the lookups of the     *)
(* drivers.  A text is a sequence of one-character strings; a line of the  *)
(* file is [section |-> name] for "[name]" or [key |-> k, value |-> text]  *)
(* for "k=text".                                                           *)
(***************************************************************************)
\* longest value text of a generated configuration file
MaxText == 3
\* the characters of the generated value texts
Chars == {"2", ".", "N", " "}
Texts == UNION {[1..n -> Chars] : n \in 0..MaxText}

DigitChars == <<"0", "1", "2", "3", "4", "5", "6", "7", "8", "9">>
IsDigit(c) == \E i \in 1..10 : DigitChars[i] = c
DigitValue(c) == (CHOOSE i \in 1..10 : DigitChars[i] = c) - 1

\* config.cpp line 31: std::remove of ' ' and erase
RemoveSpaces(t) == SelectSeq(t, LAMBDA c : c # " ")

\* the number of digits of t from position i on
RECURSIVE DigitsLen(_, _)
DigitsLen(t, i) ==
  IF i <= Len(t) /\ IsDigit(t[i]) THEN 1 + DigitsLen(t, i + 1) ELSE 0

\* the value of the digits t[i], ..., t[j] read as a whole number
RECURSIVE WholeNumber(_, _, _)
WholeNumber(t, i, j) ==
  IF j < i THEN 0 ELSE 10 * WholeNumber(t, i, j - 1) + DigitValue(t[j])

\* the value, in thousandths, of the digits t[i], ..., t[j] read after the
\* decimal point
Fraction(t, i, j) ==
  LET d(k) == IF i + k <= j THEN DigitValue(t[i + k]) ELSE 0
  IN  100 * d(0) + 10 * d(1) + d(2)

\* std::stod on texts of digits and a decimal point: the longest prefix
\* "digits [. digits]" or ". digits" is converted, the rest is ignored; no
\* such prefix throws std::invalid_argument.  The value is in thousandths.
stod(t) ==
  LET a == DigitsLen(t, 1)
      hasPoint == a + 1 <= Len(t) /\ t[a + 1] = "."
      b == IF hasPoint THEN DigitsLen(t, a + 2) ELSE 0
  IN  IF a + b = 0
      THEN [thrown |-> "invalid_argument", used |-> 0, value |-> 0]
      ELSE [thrown |-> "none",
            used |-> a + (IF hasPoint THEN 1 + b ELSE 0),
            value |-> 1000 * WholeNumber(t, 1, a)
                        + Fraction(t, a + 2, a + 1 + b)]

\* config.cpp lines 34-42: the alternative of option_t a value is stored as
StoredOption(value) ==
  IF stod(value).thrown = "none"
  THEN [type |-> "double", value |-> stod(value).value]
  ELSE IF Len(value) = 1
       THEN [type |-> "char", value |-> value[1]]
       ELSE [type |-> "string", value |-> value]

\* a map without keys
EmptyMap == [k \in {} |-> k]

\* _options[section][key] = option of lines 35, 38, 40 and 51
addOption(options, section, key, option) ==
  LET inner == IF section \in DOMAIN options THEN options[section]
               ELSE EmptyMap
      put == [k \in DOMAIN inner \cup {key} |->
                IF k = key THEN option ELSE inner[k]]
  IN  [s \in DOMAIN options \cup {section} |->
         IF s = section THEN put ELSE options[s]]

\* config.cpp lines 19-44 on the lines from position i on
RECURSIVE ReadLines(_, _, _, _)
ReadLines(lines, i, currentSection, options) ==
  IF i > Len(lines) THEN options
  ELSE IF "section" \in DOMAIN lines[i]
       THEN ReadLines(lines, i + 1, lines[i].section, options)
       ELSE ReadLines(lines, i + 1, currentSection,
              addOption(options, currentSection, lines[i].key,
                        StoredOption(RemoveSpaces(lines[i].value))))

\* config.cpp lines 14-48
openConfigFile(lines) == ReadLines(lines, 1, "", EmptyMap)

\* a default-constructed option_t: the first alternative, an empty string
DefaultOption == [type |-> "string", value |-> <<>>]

\* config.cpp lines 75-77 followed by the operator[] of the inner map: both
\* insert what they do not find
Subscript(options, section, key) ==
  LET present == section \in DOMAIN options /\ key \in DOMAIN options[section]
      inner == IF section \in DOMAIN options THEN options[section]
               ELSE EmptyMap
      withSection == [s \in DOMAIN options \cup {section} |->
                        IF s = section THEN inner ELSE options[s]]
  IN  IF present
      THEN [options |-> options, option |-> options[section][key]]
      ELSE [options |-> addOption(withSection, section, key, DefaultOption),
            option |-> DefaultOption]

\* no exception; and std::bad_variant_access, whose message names no key
NoError == [exception |-> "none", names |-> {}]
BadVariantAccess == [exception |-> "bad_variant_access", names |-> {}]

\* std::get<alternative> of an option
Get(alternative, option) ==
  IF option.type = alternative
  THEN [thrown |-> "none", value |-> option.value]
  ELSE [thrown |-> "bad_variant_access", value |-> <<>>]

TrueText == <<"t", "r", "u", "e">>
UsualPath == <<"N", ".", "N">>
UsualMinimum == <<"2", ".", "2">>

\* a complete pti.conf for the lookups of the model
FullFile(path, minimum) ==
  << [section |-> "mode"], [key |-> "online", value |-> TrueText],
     [section |-> "file"], [key |-> "decimation_path", value |-> path],
     [section |-> "min_intensities"],
     [key |-> "detector_1", value |-> minimum] >>

\* the lines of file whose positions are in kept
RECURSIVE KeptLines(_, _, _)
KeptLines(file, kept, i) ==
  IF i > Len(file) THEN <<>>
  ELSE (IF i \in kept THEN <<file[i]>> ELSE <<>>)
         \o KeptLines(file, kept, i + 1)

\* the configuration files of the model: the complete one with any of its
\* lines missing, and complete ones with every text as path or as minimum
ConfigFiles ==
  {KeptLines(FullFile(UsualPath, UsualMinimum), kept, 1) :
     kept \in SUBSET (1..6)}
  \cup {FullFile(path, UsualMinimum) : path \in Texts}
  \cup {FullFile(UsualPath, minimum) : minimum \in Texts}

nonConfigVars ==
  <<decimationVars, cnrVars, invVars, scanVars, optVars, gradientVars,
    callVars>>

InitConfig ==
  /\ pc = "config"
  /\ configFile \in ConfigFiles
  /\ configOptions = EmptyMap
  /\ lookups = <<>>
  /\ obtained = <<>>
  /\ configError = NoError
  /\ UnusedGradient
  /\ UnusedCalls
  /\ UnusedDecimation
  /\ UnusedCnr
  /\ UnusedInv
  /\ UnusedScan
  /\ UnusedOpt

\* DecimationMain.cpp line 14, PTIMain.cpp and PhaseScanMain.cpp alike
OpenConfigFile ==
  /\ pc = "config"
  /\ configOptions' = openConfigFile(configFile)
  /\ pc' = "configOpen"
  /\ UNCHANGED <<nonConfigVars, configFile, lookups, obtained, configError>>

\* a driver line std::get<alternative>(config[section][key]) outside any
\* try block: the value is obtained, or the exception ends the program
Lookup(alternative, section, key, from, to) ==
  /\ pc = from
  /\ LET found == Subscript(configOptions, section, key)
         got == Get(alternative, found.option)
     IN  /\ configOptions' = found.options
         /\ lookups' = Append(lookups, <<section, key>>)
         /\ IF got.thrown = "none"
            THEN /\ obtained' = Append(obtained, got.value)
                 /\ configError' = configError
                 /\ pc' = to
            ELSE /\ obtained' = obtained
                 /\ configError' = BadVariantAccess
                 /\ pc' = "terminated"
  /\ UNCHANGED <<nonConfigVars, configFile>>

\* DecimationMain.cpp line 15
DecimationOnline == Lookup("string", "mode", "online", "configOpen", "line23")

\* DecimationMain.cpp line 23
DecimationPath ==
  Lookup("string", "file", "decimation_path", "line23", "pathOpen")

\* Inversion.cpp line 8
InversionMinimum ==
  Lookup("double", "min_intensities", "detector_1", "configOpen", "line9")

NextConfig ==
  OpenConfigFile \/ DecimationOnline \/ DecimationPath \/ InversionMinimum

SpecConfig == InitConfig /\ [][NextConfig]_vars

\* what openConfigFile made of the file
Parsed == openConfigFile(configFile)
Present(options, path) ==
  path[1] \in DOMAIN options /\ path[2] \in DOMAIN options[path[1]]
\* a lookup of a key that the file does not have has been made
MissingLookedUp ==
  \E i \in 1..Len(lookups) : ~Present(Parsed, lookups[i])

\* C23: once a driver has looked up a section/key that the configuration
\* file does not hold, it has failed with a ConfigMissing error that names
\* that key; and no lookup adds an entry to the configuration.
C23_MissingKeyIsFatalAndNotAdded ==
  pc # "config" =>
    /\ \A i \in 1..Len(lookups) :
         ~Present(Parsed, lookups[i]) =>
           /\ configError.exception = "ConfigMissing"
           /\ lookups[i] \in configError.names
    /\ configOptions = Parsed

\* weaker than C23: a lookup of a missing key ends the driver in some way
C23_MissingKeyIsFatal ==
  MissingLookedUp => pc = "terminated"

\* weaker than C23: a missing key asked for as a number ends the driver
C23_MissingNumberIsFatal ==
  (pc # "config" /\ Len(lookups) > 0
     /\ lookups[Len(lookups)] = <<"min_intensities", "detector_1">>
     /\ ~Present(Parsed, lookups[Len(lookups)])) => pc = "terminated"

\* a text without the spaces around it
RECURSIVE TrimLeft(_)
TrimLeft(t) == IF t # <<>> /\ t[1] = " " THEN TrimLeft(Tail(t)) ELSE t
RECURSIVE TrimRight(_)
TrimRight(t) ==
  IF t # <<>> /\ t[Len(t)] = " " THEN TrimRight(SubSeq(t, 1, Len(t) - 1))
  ELSE t
Trim(t) == TrimRight(TrimLeft(t))

\* the whole text is a numeric literal
IsNumericLiteral(t) ==
  t # <<>> /\ stod(t).thrown = "none" /\ stod(t).used = Len(t)

\* the alternative the value text of a line is to be stored as
TypedValue(text) ==
  LET v == Trim(text)
  IN  IF IsNumericLiteral(v) THEN [type |-> "double", value |-> stod(v).value]
      ELSE IF Len(v) = 1 THEN [type |-> "char", value |-> v[1]]
      ELSE [type |-> "string", value |-> v]

\* two options hold the same alternative with the same value
SameOption(a, b) == a.type = b.type /\ a.value = b.value

\* the section a line of the file belongs to
RECURSIVE SectionAt(_, _)
SectionAt(lines, i) ==
  IF i = 0 THEN ""
  ELSE IF "section" \in DOMAIN lines[i] THEN lines[i].section
       ELSE SectionAt(lines, i - 1)

\* the file gives the path as a string that is neither a number nor a
\* single character
PathIsString ==
  \E i \in 1..Len(configFile) :
    /\ "key" \in DOMAIN configFile[i]
    /\ configFile[i].key = "decimation_path"
    /\ SectionAt(configFile, i) = "file"
    /\ ~IsNumericLiteral(Trim(configFile[i].value))
    /\ Len(Trim(configFile[i].value)) # 1

\* C30: after openConfigFile every value of the file is stored as a
\* float64 if its whole text is a numeric literal, as a char if it is one
\* other character, and as the unchanged string otherwise; and the lookup
\* of a path that is such a string, also one that starts with digits,
\* succeeds with std::get<std::string>.
C30_ValuesStoredByWholeText ==
  pc # "config" =>
    /\ \A i \in 1..Len(configFile) :
         "key" \in DOMAIN configFile[i] =>
           SameOption(
             configOptions[SectionAt(configFile, i)][configFile[i].key],
             TypedValue(configFile[i].value))
    /\ (PathIsString /\ Len(lookups) = 2) => pc = "pathOpen"

\* weaker than C30: the same for the values without a digit or point in front
C30_NonDigitValuesStoredByWholeText ==
  pc # "config" =>
    \A i \in 1..Len(configFile) :
      ("key" \in DOMAIN configFile[i]
         /\ stod(RemoveSpaces(configFile[i].value)).thrown # "none"
         /\ RemoveSpaces(configFile[i].value) = Trim(configFile[i].value)) =>
        SameOption(
          configOptions[SectionAt(configFile, i)][configFile[i].key],
          TypedValue(configFile[i].value))

\* calculateBands has run for the detector (2 or 3) and setBandRange has not
\* yet touched its band
BandComplete(detector) ==
  \/ pc = "band3"
  \/ pc = "band2" /\ detector = 2

\* C24: calculateBands appends exactly four candidates for each of the first
\* BandSamples samples, so that the band of each detector holds
\* 4 * BandSamples of them, and every candidate is a number in [0, 2 pi),
\* 2 pi excluded, also for a sample with dc_1 = dc_d = -1.
C24_FourCandidatesInHalfOpenRange ==
  \A detector \in {2, 3} :
    BandComplete(detector) =>
      /\ Len(bands[detector - 1]) = 4 * BandSamples
      /\ \A n \in 1..Len(bands[detector - 1]) :
           /\ IsNumber(bands[detector - 1][n])
           /\ 0 <= bands[detector - 1][n]
           /\ bands[detector - 1][n] < TwoPi

\* the part of C24 on the number of candidates
C24_FourCandidatesPerSample ==
  \A detector \in {2, 3} :
    BandComplete(detector) => Len(bands[detector - 1]) = 4 * BandSamples

\* weaker than C24: a candidate that is a number lies in [0, 2 pi], 2 pi
\* included
C24_CandidatesInClosedRange ==
  \A detector \in {2, 3} :
    BandComplete(detector) =>
      \A n \in 1..Len(bands[detector - 1]) :
        IsNumber(bands[detector - 1][n]) =>
          /\ 0 <= bands[detector - 1][n]
          /\ bands[detector - 1][n] <= TwoPi

\* weaker than C24: in a sweep without a constant column a candidate is a
\* number in [0, 2 pi) unless dc_1 = dc_d = -1 in its sample
C24_TwoPiOnlyAtBothMinima ==
  \A detector \in {2, 3} :
    BandComplete(detector) =>
      \A n \in 1..Len(bands[detector - 1]) :
        LET row == scanSignal[((n - 1) \div 4) + 1]
        IN  (IsNumber(row[1]) /\ IsNumber(row[detector])
               /\ ~(row[1] = 0 - 1000 /\ row[detector] = 0 - 1000)) =>
              /\ IsNumber(bands[detector - 1][n])
              /\ 0 <= bands[detector - 1][n]
              /\ bands[detector - 1][n] < TwoPi

(***************************************************************************)
(* The objective of the system-phase optimizer and its gradient:           *)
(* phase_scan/system_phases.c.  The point (x, y) is given in quarter       *)
(* turns, where sine and cosine are whole numbers, and the intensities are *)
(* whole numbers, so that every PHI and PSI is a whole number; a quotient  *)
(* is kept as the record of its numerator and denominator.                 *)
(***************************************************************************)
\* DATA_SIZE of system_phases.h (333 in the source), scaled down
ScanDataSize == 2

CosQuarter(q) == <<1, 0, 0 - 1, 0>>[(q % 4) + 1]
SinQuarter(q) == <<0, 1, 0, 0 - 1>>[(q % 4) + 1]

\* line 12
CIRCLE(x, y) == x * x + y * y

\* lines 14-16: PHI(i, x, y) for the sample d = <<detector_1[i],
\* detector_2[i], detector_3[i]>>
PHI(d, x, y) ==
  CIRCLE(d[1] + d[2] * CosQuarter(x) + d[3] * CosQuarter(y),
         d[2] * SinQuarter(x) + d[3] * SinQuarter(y))

\* lines 18-21
PSI_X(d, x, y) ==
  2 * d[2] * (d[2] * SinQuarter(x) + d[3] * SinQuarter(y)) * CosQuarter(x)
    - 2 * d[2] * (d[1] + d[2] * CosQuarter(x) + d[3] * CosQuarter(y))
        * SinQuarter(x)

\* lines 23-26
PSI_Y(d, x, y) ==
  2 * d[3] * (d[2] * SinQuarter(x) + d[3] * SinQuarter(y)) * CosQuarter(y)
    - 2 * d[3] * (d[1] + d[2] * CosQuarter(x) + d[3] * CosQuarter(y))
        * SinQuarter(y)

RECURSIVE SumTo(_, _)
SumTo(s, n) == IF n = 0 THEN 0 ELSE SumTo(s, n - 1) + s[n]

\* lines 44-50: get_mean, a quotient
get_mean(values) ==
  [num |-> SumTo(values, ScanDataSize), den |-> ScanDataSize]

\* DATA_SIZE times (values[i] - mean), a whole number
Deviation(values, i) == ScanDataSize * values[i] - get_mean(values).num

\* lines 52-59: get_variance, the sum of (mean - data[i])^2 over DATA_SIZE
get_variance(values) ==
  [num |-> SumTo([i \in 1..ScanDataSize |->
                    Deviation(values, i) * Deviation(values, i)],
                 ScanDataSize),
   den |-> ScanDataSize * ScanDataSize * ScanDataSize]

\* lines 61-73
standard_deviation_circle(v, intensities) ==
  get_variance([i \in 1..ScanDataSize |-> PHI(intensities[i], v[1], v[2])])

\* lines 95-103 for one component: twice the sum of
\* (phi - mean) * (psi - mean_psi); nothing divides the sum by DATA_SIZE
Component(phi, psi) ==
  [num |-> 2 * SumTo([i \in 1..ScanDataSize |->
                        Deviation(phi, i) * Deviation(psi, i)], ScanDataSize),
   den |-> ScanDataSize * ScanDataSize]

\* lines 75-107: gradient, the vector df
gradient(v, intensities) ==
  LET phi   == [i \in 1..ScanDataSize |-> PHI(intensities[i], v[1], v[2])]
      psi_x == [i \in 1..ScanDataSize |-> PSI_X(intensities[i], v[1], v[2])]
      psi_y == [i \in 1..ScanDataSize |-> PSI_Y(intensities[i], v[1], v[2])]
  IN  <<Component(phi, psi_x), Component(phi, psi_y)>>

\* the samples of the scaled signals and the points of the model
ScaledSamples == {0 - 1, 1} \X {0 - 1, 0, 1} \X {0 - 1, 1}
QuarterPoints == (0..3) \X (0..3)

nonGradientVars ==
  <<decimationVars, cnrVars, invVars, scanVars, optVars, configVars,
    callVars>>

InitGradient ==
  /\ pc = "fdf"
  /\ minimizerParams \in [1..ScanDataSize -> ScaledSamples]
  /\ minimizerPoint \in QuarterPoints
  /\ fValue = <<>>
  /\ dfValue = <<>>
  /\ UnusedCalls
  /\ UnusedDecimation
  /\ UnusedCnr
  /\ UnusedInv
  /\ UnusedScan
  /\ UnusedOpt
  /\ UnusedConfig

\* lines 109-112: function_gradient_value, as the minimizer calls it
FunctionGradientValue ==
  /\ pc = "fdf"
  /\ fValue' = standard_deviation_circle(minimizerPoint, minimizerParams)
  /\ dfValue' = gradient(minimizerPoint, minimizerParams)
  /\ pc' = "evaluated"
  /\ UNCHANGED <<nonGradientVars, minimizerParams, minimizerPoint>>

NextGradient == FunctionGradientValue

SpecGradient == InitGradient /\ [][NextGradient]_vars

\* two quotients are the same number
SameQuotient(a, b) == a.num * b.den = b.num * a.den

\* (2/N) * sum of (phi_n - mean phi) * (dphi_n - mean dphi)
VarianceSlope(phi, dphi) ==
  [num |-> 2 * SumTo([i \in 1..ScanDataSize |->
                        Deviation(phi, i) * Deviation(dphi, i)], ScanDataSize),
   den |-> ScanDataSize * ScanDataSize * ScanDataSize]

PhiOf(ints, v) == [i \in 1..ScanDataSize |-> PHI(ints[i], v[1], v[2])]

\* C25: each component of the gradient handed to the minimizer equals
\* (2/N) * sum of (phi_n - mean phi) * (dphi_n - mean dphi), the slope of
\* the population variance that the objective returns.
C25_GradientOfPopulationVariance ==
  pc = "evaluated" =>
    /\ SameQuotient(dfValue[1],
         VarianceSlope(PhiOf(minimizerParams, minimizerPoint),
           [i \in 1..ScanDataSize |->
              PSI_X(minimizerParams[i], minimizerPoint[1], minimizerPoint[2])]))
    /\ SameQuotient(dfValue[2],
         VarianceSlope(PhiOf(minimizerParams, minimizerPoint),
           [i \in 1..ScanDataSize |->
              PSI_Y(minimizerParams[i], minimizerPoint[1], minimizerPoint[2])]))

\* weaker than C25: the gradient is DATA_SIZE times that slope
C25_GradientIsSlopeTimesSize ==
  pc = "evaluated" =>
    /\ SameQuotient(dfValue[1],
         [num |-> ScanDataSize
                    * VarianceSlope(PhiOf(minimizerParams, minimizerPoint),
                        [i \in 1..ScanDataSize |->
                           PSI_X(minimizerParams[i], minimizerPoint[1], minimizerPoint[2])]).num,
          den |-> ScanDataSize * ScanDataSize * ScanDataSize])
    /\ SameQuotient(dfValue[2],
         [num |-> ScanDataSize
                    * VarianceSlope(PhiOf(minimizerParams, minimizerPoint),
                        [i \in 1..ScanDataSize |->
                           PSI_Y(minimizerParams[i], minimizerPoint[1], minimizerPoint[2])]).num,
          den |-> ScanDataSize * ScanDataSize * ScanDataSize])

\* get_measurement of lock_in_amplifier/read_binary.c has just returned from
\* its call for a block that the file holds whole
CallReturnedForWholeBlock ==
  /\ reader = "lock_in_amplifier"
  /\ pc = "cref"
  /\ readLog # <<>>
  /\ BlockStart(Len(readLog) - 1) + BlockBytes <= Len(stream)

\* the seven arrays hold the channels of block k of the file
FilledFromBlock(k) ==
  \A n \in 1..7 : rawData[ChannelNames[n]] = ChannelRange(k, n)

\* C26: in each of the modes NORMAL, DEBUG and VERBOSE every call of
\* get_measurement in the block loop leaves in the seven arrays of the raw
\* block the channels of its block of the stream; no pass of the loop works
\* on arrays that were not read.
C26_EveryOfflineModeFillsBlock ==
  CallReturnedForWholeBlock => FilledFromBlock(Len(readLog) - 1)

\* weaker than C26: the first call in mode DEBUG fills the arrays
C26_FirstDebugCallFillsBlock ==
  (CallReturnedForWholeBlock /\ mode = "DEBUG" /\ Len(readLog) = 1) =>
    FilledFromBlock(0)

\* weaker than C26: a call in mode NORMAL or VERBOSE leaves the arrays as
\* they were initialized
C26_NormalAndVerboseReadNothing ==
  (CallReturnedForWholeBlock /\ mode # "DEBUG") => rawData = ZeroBlock

\* the address is one of the six doubles of the array x or y
InBounds(lay, axis, addr) ==
  /\ ArrayBase(lay, axis) <= addr
  /\ addr < ArrayBase(lay, axis) + 2 * channels

\* the twelve stores of lines 78-83 for row i
StoresOfRow(i) == RootStores(layout, dcSignals[i], ptiConfig.output_phases)

\* C27: in calculateInterferomticPhase of src/Cpp/inversion every access
\* x[channel][branch] and y[channel][branch] is inside its array, the
\* twelve candidates of a row have twelve cells of their own, and after the
\* stores of the row each cell still holds the candidate written to it.
C27_CandidateCellsInBounds ==
  (revision = "Cpp") =>
    \A i \in PhaseRows :
      LET w == StoresOfRow(i)
      IN  /\ \A n \in 1..12 :
               InBounds(layout, IF (n - 1) % 4 < 2 THEN "x" ELSE "y",
                        w[n].addr)
          /\ \A n, m \in 1..12 : n # m => w[n].addr # w[m].addr
          /\ \A n \in 1..12 : Loaded(w, w[n].addr) = w[n].cell

\* weaker than C27: the accesses for the first two detectors are in bounds
C27_FirstTwoDetectorsInBounds ==
  (revision = "Cpp") =>
    \A i \in PhaseRows :
      \A n \in 1..8 :
        InBounds(layout, IF (n - 1) % 4 < 2 THEN "x" ELSE "y",
                 StoresOfRow(i)[n].addr)

\* weaker than C27: where the build keeps x and y apart each candidate has
\* a cell of its own, although the third detector's are outside the arrays
C27_ApartCellsDistinct ==
  (revision = "Cpp" /\ layout = "apart") =>
    \A i \in PhaseRows :
      LET w == StoresOfRow(i)
      IN  /\ \A n, m \in 1..12 : n # m => w[n].addr # w[m].addr
          /\ \A n \in 1..12 : Loaded(w, w[n].addr) = w[n].cell

\* the physical detector whose DC, X and Y columns the constructor ingests
\* into the slot
DetectorOfSlot(slot) ==
  IF swappPhases /\ slot = 2 THEN 3
  ELSE IF swappPhases /\ slot = 3 THEN 2
  ELSE slot

\* the slot's minimum and maximum are those of the detector in the slot
OwnLimits(slot) ==
  /\ minIntensities[slot] = ptiConfig.min_intensities[DetectorOfSlot(slot)]
  /\ maxIntensities[slot] = ptiConfig.max_intensities[DetectorOfSlot(slot)]

\* C28: once the engine of src/Cpp/inversion is constructed, for both
\* values of the swapped flag and every slot, the minimum and the maximum
\* of the slot are those configured for one and the same physical detector,
\* the one whose columns are ingested into the slot.
C28_LimitsFollowIngestedDetector ==
  (revision = "Cpp" /\ pc # "inv") => \A slot \in Detectors : OwnLimits(slot)

\* weaker than C28, for the maxima: without the swap every slot has the
\* maximum of its detector, and with it the slots 1 and 3 have
C28_MaximaFollowExceptSwappedSlot2 ==
  (revision = "Cpp" /\ pc # "inv") =>
    \A slot \in Detectors :
      (~swappPhases \/ slot # 2) =>
        maxIntensities[slot] = ptiConfig.max_intensities[DetectorOfSlot(slot)]

\* weaker than C28: with the swap slot 2 has the maximum of detector 2,
\* whose columns are in slot 3
C28_SwappedSlot2HasMaximumOfDetector2 ==
  (revision = "Cpp" /\ pc # "inv" /\ swappPhases) =>
    maxIntensities[2] = ptiConfig.max_intensities[2]

(***************************************************************************)
(* The inversion engine under any order of calls of its public stages:     *)
(* the members are vectors that every call of a stage appends to.          *)
(***************************************************************************)
\* largest number of stage calls on one engine
MaxCalls == 3

nonCallVars ==
  <<decimationVars, cnrVars, scanVars, optVars, configVars, gradientVars>>

\* the engine as the constructor of src/Cpp/inversion leaves it
InitCalls ==
  /\ pc = "constructed"
  /\ revision = "Cpp"
  /\ layout \in Layouts
  /\ ptiConfig \in {c \in Configs : /\ ~c.phases_swapped
                                    /\ c.max_intensities[3] = 2000
                                    /\ c.output_phases[3] = 240}
  /\ \E n \in 1..2 : data = Columns(UsualRow, n)
  /\ swappPhases = ptiConfig.phases_swapped
  /\ minIntensities = ConfiguredMin(revision, ptiConfig)
  /\ maxIntensities = ConfiguredMax(revision, ptiConfig)
  /\ dcSignals = [i \in 1..Len(data.DC1) |->
                    Ingest(data, i, ptiConfig.phases_swapped).dc]
  /\ acSignals = [i \in 1..Len(data.DC1) |->
                    Ingest(data, i, ptiConfig.phases_swapped).ac]
  /\ selected = <<>> /\ interferometricPhase = <<>>
  /\ weights = <<>> /\ ptiSignal = <<>>
  /\ stagesCalled = <<>>
  /\ uncomputedRead = FALSE
  /\ ptiData = <<>>
  /\ UnusedDecimation
  /\ UnusedCnr
  /\ UnusedScan
  /\ UnusedOpt
  /\ UnusedConfig
  /\ UnusedGradient

\* Inversion.cpp lines 65-72
CallScaleSignals ==
  /\ pc = "constructed"
  /\ Len(stagesCalled) < MaxCalls
  /\ dcSignals' = scaleSignals(dcSignals, minIntensities, maxIntensities)
  /\ stagesCalled' = Append(stagesCalled, "scaleSignals")
  /\ UNCHANGED <<nonCallVars, pc, revision, layout, ptiConfig, data,
                 swappPhases, minIntensities, maxIntensities, acSignals,
                 selected, interferometricPhase, weights, ptiSignal,
                 uncomputedRead, ptiData>>

\* Inversion.cpp lines 74-114: one push_back per row onto the phases that
\* are already there
CallCalculateInterferomticPhase ==
  /\ pc = "constructed"
  /\ Len(stagesCalled) < MaxCalls
  /\ LET r == calculateInterferomticPhase(revision, layout, dcSignals,
                                          ptiConfig.output_phases)
     IN /\ selected' =
             selected \o [i \in 1..Len(r) |-> [x |-> r[i].x, y |-> r[i].y]]
        /\ interferometricPhase' =
             interferometricPhase \o [i \in 1..Len(r) |-> r[i].phase]
  /\ stagesCalled' = Append(stagesCalled, "calculateInterferomticPhase")
  /\ UNCHANGED <<nonCallVars, pc, revision, layout, ptiConfig, data,
                 swappPhases, minIntensities, maxIntensities, dcSignals,
                 acSignals, weights, ptiSignal, uncomputedRead, ptiData>>

\* what _interferometricPhase[i] can give for an i past the size of the
\* vector
PastPhases ==
  {[y_value |-> 0, x_value |-> 1000], [y_value |-> 1000, x_value |-> 0]}

\* what the loop of calculatePTISignal reads as _interferometricPhase: the
\* loop runs to _dcSignals.size(), and a read past the size of the phase
\* vector is undefined, it gives some double
PhasesRead ==
  IF Len(interferometricPhase) >= Len(acSignals)
    THEN {interferometricPhase}
    ELSE {interferometricPhase \o
            [i \in 1..(Len(acSignals) - Len(interferometricPhase)) |-> past] :
          past \in PastPhases}

\* Inversion.cpp lines 116-135: row i reads _interferometricPhase[i] and
\* pushes one signal; where the phase vector is shorter than _dcSignals the
\* read is undefined, and the process may also be killed
CallCalculatePTISignal ==
  /\ pc = "constructed"
  /\ Len(stagesCalled) < MaxCalls
  /\ stagesCalled' = Append(stagesCalled, "calculatePTISignal")
  /\ uncomputedRead' =
       (uncomputedRead \/ Len(interferometricPhase) < Len(acSignals))
  /\ \/ \E phases \in PhasesRead :
          LET r == calculatePTISignal(phases, acSignals, ptiConfig,
                                      minIntensities, maxIntensities)
          IN /\ weights' = weights \o [i \in 1..Len(r) |-> r[i].weight]
             /\ ptiSignal' = ptiSignal \o [i \in 1..Len(r) |-> r[i].signal]
             /\ pc' = pc
     \/ /\ Len(interferometricPhase) < Len(acSignals)
        /\ pc' = "crashed"
        /\ UNCHANGED <<weights, ptiSignal>>
  /\ UNCHANGED <<nonCallVars, revision, layout, ptiConfig, data, swappPhases,
                 minIntensities, maxIntensities, dcSignals, acSignals,
                 selected, interferometricPhase, ptiData>>

\* Inversion.cpp lines 137-149 with _modes["verbose"] false: the map of the
\* two columns
GetPTIData ==
  /\ pc = "constructed"
  /\ ptiData' = [PTI_Signal |-> ptiSignal,
                 Interferometric_Phase |-> interferometricPhase]
  /\ pc' = "returned"
  /\ UNCHANGED <<nonCallVars, revision, layout, ptiConfig, data, swappPhases,
                 minIntensities, maxIntensities, dcSignals, acSignals,
                 selected, interferometricPhase, weights, ptiSignal,
                 stagesCalled, uncomputedRead>>

NextCalls ==
  \/ CallScaleSignals
  \/ CallCalculateInterferomticPhase
  \/ CallCalculatePTISignal
  \/ GetPTIData

SpecCalls == InitCalls /\ [][NextCalls]_vars

\* the number of calls of the stage so far
TimesCalled(stage) ==
  Cardinality({i \in 1..Len(stagesCalled) : stagesCalled[i] = stage})
EachStageCalled ==
  /\ TimesCalled("scaleSignals") > 0
  /\ TimesCalled("calculateInterferomticPhase") > 0
  /\ TimesCalled("calculatePTISignal") > 0

\* C29: for an engine built from n rows and any sequence of calls of the
\* three stages, the columns that getPTIData returns never hold more than n
\* entries, they hold exactly n entries once each stage has been called,
\* and calculatePTISignal never reads an interferometric phase that has
\* not been computed.
C29_ColumnsHoldOneEntryPerRow ==
  /\ ~uncomputedRead
  /\ pc = "returned" =>
       /\ Len(ptiData.PTI_Signal) <= Len(data.DC1)
       /\ Len(ptiData.Interferometric_Phase) <= Len(data.DC1)
       /\ EachStageCalled =>
            /\ Len(ptiData.PTI_Signal) = Len(data.DC1)
            /\ Len(ptiData.Interferometric_Phase) = Len(data.DC1)

\* weaker than C29: after the calls of main, each stage once and in the
\* order scaleSignals, calculateInterferomticPhase, calculatePTISignal, the
\* columns hold one entry per row and no uncomputed phase was read
C29_OrderOfMainGivesOneEntryPerRow ==
  (pc = "returned"
     /\ stagesCalled = <<"scaleSignals", "calculateInterferomticPhase",
                         "calculatePTISignal">>) =>
    /\ ~uncomputedRead
    /\ Len(ptiData.PTI_Signal) = Len(data.DC1)
    /\ Len(ptiData.Interferometric_Phase) = Len(data.DC1)

\* weaker than C29: each call of a stage adds one entry per row to its
\* column
C29_ColumnsGrowWithEveryCall ==
  pc = "returned" =>
    /\ Len(ptiData.PTI_Signal)
         = Len(data.DC1) * TimesCalled("calculatePTISignal")
    /\ Len(ptiData.Interferometric_Phase)
         = Len(data.DC1) * TimesCalled("calculateInterferomticPhase")

==============================================================================
